---- MODULE Spec2Model ----
(***************************************************************************)
(* Model of the channel/device synchronization engine of wpilib-ws-robot   *)
(* (WPILibWSRobotEndpoint, src/src/wpilib-ws-robot-endpoint.ts, the        *)
(* revision that starts at line 211 of that file).                         *)
(*                                                                         *)
(* Every inbound event handler, the polling tick and every lifecycle       *)
(* handler is one action: JavaScript runs each callback to completion.     *)
(* An optional payload field is <<>> when it is undefined and <<v>> when   *)
(* it carries v.  Numbers of the PWM domain are kept in hundredths, so     *)
(* that 127.5 is the integer 12750.                                        *)
(***************************************************************************)
EXTENDS Integers, Sequences, FiniteSets, TLC

\* ------------------------------------------------------------- bounds
\* Channel indices 0..MaxChannel are used by every channel category.
MaxChannel == 1

Channels == 0..MaxChannel

\* ---------------------------------------------------------- constants
\* PWM_NO_MOVEMENT = 127.5, in hundredths.
PWM_NO_MOVEMENT == 12750

Undefined == <<>>
Def(v) == <<v>>
Val(o) == o[1]
OptBool == {Undefined, Def(TRUE), Def(FALSE)}

\* DigitalChannelMode
INPUT == "INPUT"
OUTPUT == "OUTPUT"
UNCONFIGURED == "UNCONFIGURED"

\* mapValue(value, inMin, inMax, outMin, outMax) of ./math-util: the affine
\* transform outMin + (value - inMin) * (outMax - outMin) / (inMax - inMin).
\* All five arguments are in hundredths.
mapValue(value, inMin, inMax, outMin, outMax) ==
    outMin + ((value - inMin) * (outMax - outMin)) \div (inMax - inMin)

\* ------------------------------------------------------------ payloads
\* PWM commands that the protocol side sends: full forward speed, position
\* 0 and a raw value of 200.
PWMPayloads ==
    [init : BOOLEAN,
     speed : {Undefined, Def(100)},
     position : {Undefined, Def(0)},
     raw : {Undefined, Def(20000)}]

DriverStationPayloads ==
    [enabled : OptBool, autonomous : OptBool, test : OptBool]

DIOPayloads == [init : BOOLEAN, input : OptBool, value : OptBool]

AIPayloads == [init : BOOLEAN]

AOPayloads == [init : BOOLEAN, voltage : {Undefined, Def(3)}]

EncoderPayloads ==
    [init : BOOLEAN,
     channel_a : {Undefined, Def(4)},
     channel_b : {Undefined, Def(5)},
     reset : BOOLEAN,
     reverse_direction : {Undefined, Def(TRUE)}]

AccelPayloads == [init : BOOLEAN, range : {Undefined, Def(4)}]

GyroPayloads == [init : BOOLEAN, range : {Undefined, Def(500)}]

\* The accelerometer and the gyro that the robot registers (registerAccelerometer,
\* registerGyro), and the device names that inbound messages address.  A device
\* identifier is the pair of the name and the channel, NullChannel for null.
NullChannel == -1
DeviceIdent(name, channel) == <<name, channel>>
RobotAccelIdents == {DeviceIdent("BuiltInAccel", NullChannel)}
RobotGyroIdents == {DeviceIdent("Gyro", NullChannel)}
AccelAddresses == {<<"BuiltInAccel", NullChannel>>}
GyroAddresses == {<<"Gyro", NullChannel>>}

\* The identifier that the polling tick builds for a sensor of the robot: from
\* accelerometer.name and accelerometer.channel, and from gyro.name and
\* gyro.channel.  A RobotGyro has the properties name and index and no
\* property channel, which reads as undefined and is never null.
UndefinedIndex == -2
AccelKeys == [d \in RobotAccelIdents |-> DeviceIdent(d[1], d[2])]
GyroKeys == [d \in RobotGyroIdents |-> DeviceIdent(d[1], UndefinedIndex)]

\* -------------------------------------------------------------- state
VARIABLES
    pc,                   \* position of startP's promise chain
    wsReady,              \* the transport's isReadyP has resolved
    robotReady,           \* the robot's readyP promise has resolved
    hooked,               \* _hookupEvents has attached the listeners
    readTimer,            \* _readTimer is set
    startResolved,        \* the promise returned by startP has resolved
    connected,            \* the transport has an open connection
    dioChannels,          \* _dioChannels
    pendingDioEvents,     \* _pendingDioEvents
    ainChannels,          \* _ainChannels
    aoutChannels,         \* _aoutChannels
    pwmChannels,          \* _pwmChannels
    encoderChannels,      \* _encoderChannels
    accelDevices,         \* _accelDevices
    gyroDevices,          \* _gyroDevices
    driverStationEnabled, \* _driverStationEnabled
    dsMode,               \* _dsMode
    hwPWM,                \* robot: the value last given to setPWMValue, per channel
    accelRange,           \* robot: RobotAccelerometer.range, per registered device
    gyroRange,            \* robot: RobotGyro.range, per registered device
    lastEvent,            \* the event whose handler ran last
    lastCalls,            \* the robot calls that handler made, in order
    lastSent,             \* the messages that handler sent to the protocol side
    initSeen,             \* per table, the keys whose init message a handler has
                          \* received since the last close
    simDevices,           \* the robot's _simDevices: per device ident, the
                          \* _fieldNameToIdent and _fields of the SimDevice
    simDeviceFields,      \* _simDeviceFields: per device ident, the field values
                          \* the polling tick saw last
    lastReturn,           \* what the last call of a SimDevice method returned
    registry,             \* per device ident and field name, the direction and
                          \* the default the field was registered with, and the
                          \* value that registerField or the last setValue gave it
    tickValues,           \* per device ident and field name, the value the field
                          \* had at the last polling tick
    dsPacketTimedOut,     \* the driver-station packet watchdog has timed out
    lastNotice,           \* the packet-timeout notification delivered last
    prevNotice,           \* the packet-timeout notification delivered before it
    commanded             \* per PWM channel, the value of the last command that was
                          \* accepted since the last close and the last change of
                          \* the autonomous or test mode

startVars == <<pc, wsReady, robotReady, hooked, readTimer, startResolved>>
tableVars == <<dioChannels, pendingDioEvents, ainChannels, aoutChannels,
               pwmChannels, encoderChannels, accelDevices, gyroDevices>>
dsVars == <<driverStationEnabled, dsMode>>
robotVars == <<hwPWM, accelRange, gyroRange>>
obsVars == <<lastEvent, lastCalls, lastSent, initSeen, commanded>>
simVars == <<simDevices, simDeviceFields, lastReturn, registry, tickValues>>
watchdogVars == <<dsPacketTimedOut, lastNotice, prevNotice>>
vars == <<startVars, connected, tableVars, dsVars, robotVars, obsVars, simVars, watchdogVars>>

EmptyMap == <<>>

\* Map.set(key, value)
MapSet(map, key, value) ==
    [k \in DOMAIN map \cup {key} |-> IF k = key THEN value ELSE map[k]]

\* The keys of a Map in the order forEach visits them.  Map iterates in
\* insertion order; the model visits the keys in ascending order.
RECURSIVE KeysInOrder(_)
KeysInOrder(keys) ==
    IF keys = {} THEN <<>>
    ELSE LET first == CHOOSE k \in keys : \A other \in keys : k <= other
         IN <<first>> \o KeysInOrder(keys \ {first})

NoEvent == [type |-> "none", channel |-> NullChannel, device |-> <<>>, payload |-> <<>>]
Event(type, channel, device, payload) ==
    [type |-> type, channel |-> channel, device |-> device, payload |-> payload]

NoInitSeen ==
    [dio |-> {}, ain |-> {}, aout |-> {}, pwm |-> {}, encoder |-> {},
     accel |-> {}, gyro |-> {}]

\* The robot's record of setPWMValue calls: the last value per channel.
RECURSIVE RobotPWMAfter(_, _)
RobotPWMAfter(hw, calls) ==
    IF calls = <<>> THEN hw
    ELSE LET c == Head(calls)
         IN RobotPWMAfter(
                IF c[1] = "setPWMValue" THEN [hw EXCEPT ![c[2]] = Def(c[3])] ELSE hw,
                Tail(calls))

NoneCommanded == [ch \in Channels |-> Undefined]

\* A call of a SimDevice method, with what it returned and the calls of
\* _onSetValue it made.
Return(method, device, args, result, calls) ==
    [method |-> method, device |-> device, args |-> args, result |-> result, calls |-> calls]
NoReturn == Return("none", <<>>, <<>>, <<>>, <<>>)

\* The SimDevices of the robot, the names of their fields (without direction
\* prefixes, as registerField documents), the name of a field that no device
\* has, and the values of a field.
SimDeviceAddresses == {<<"SimA", NullChannel>>, <<"SimB", 0>>}
FieldNames == {<<"x">>, <<"y">>}
LookupNames == FieldNames \cup {<<"z">>}
SimValues == {0, 1}

\* The strings given to fieldNameAndDirection.
MaxIdentLen == 3
IdentChars == {"<", ">", "x"}
IdentStrings == UNION {[1..n -> IdentChars] : n \in 0..MaxIdentLen}

Init ==
    /\ pc = "constructed"
    /\ wsReady = FALSE
    /\ robotReady = FALSE
    /\ hooked = FALSE
    /\ readTimer = FALSE
    /\ startResolved = FALSE
    /\ connected = FALSE
    /\ dioChannels = EmptyMap
    /\ pendingDioEvents = EmptyMap
    /\ ainChannels = EmptyMap
    /\ aoutChannels = EmptyMap
    /\ pwmChannels = EmptyMap
    /\ encoderChannels = EmptyMap
    /\ accelDevices = EmptyMap
    /\ gyroDevices = EmptyMap
    /\ driverStationEnabled = FALSE
    /\ dsMode = [autonomous |-> FALSE, test |-> FALSE]
    /\ hwPWM = [ch \in Channels |-> Undefined]
    /\ accelRange = [d \in RobotAccelIdents |-> 2]
    /\ gyroRange = [d \in RobotGyroIdents |-> 1000]
    /\ lastEvent = NoEvent
    /\ lastCalls = <<>>
    /\ lastSent = <<>>
    /\ initSeen = NoInitSeen
    /\ commanded = NoneCommanded
    /\ simDevices = EmptyMap
    /\ simDeviceFields = EmptyMap
    /\ lastReturn = NoReturn
    /\ registry = EmptyMap
    /\ tickValues = EmptyMap
    /\ dsPacketTimedOut = TRUE
    /\ lastNotice = "none"
    /\ prevNotice = "none"

\* ------------------------------------------------------------ startup
\* startP: start the transport and wait for isReadyP.
StartP ==
    /\ pc = "constructed"
    /\ pc' = "awaitWs"
    /\ UNCHANGED <<wsReady, robotReady, hooked, readTimer, startResolved, connected,
                   tableVars, dsVars, robotVars, obsVars>>
    /\ UNCHANGED <<simVars, watchdogVars>>

\* The transport, once started, becomes ready.
TransportReady ==
    /\ pc # "constructed"
    /\ ~wsReady
    /\ wsReady' = TRUE
    /\ UNCHANGED <<pc, robotReady, hooked, readTimer, startResolved, connected,
                   tableVars, dsVars, robotVars, obsVars>>
    /\ UNCHANGED <<simVars, watchdogVars>>

\* The promise that the call of readyP returned resolves, when the robot has
\* finished its own setup.
ReadyPResolved ==
    /\ pc = "awaitRobot"
    /\ ~robotReady
    /\ robotReady' = TRUE
    /\ UNCHANGED <<pc, wsReady, hooked, readTimer, startResolved, connected,
                   tableVars, dsVars, robotVars, obsVars>>
    /\ UNCHANGED <<simVars, watchdogVars>>

\* .then(() => this._robot.readyP()): runs once isReadyP has resolved.
OnWsReady ==
    /\ pc = "awaitWs"
    /\ wsReady
    /\ pc' = "awaitRobot"
    /\ UNCHANGED <<wsReady, robotReady, hooked, readTimer, startResolved, connected,
                   tableVars, dsVars, robotVars, obsVars>>
    /\ UNCHANGED <<simVars, watchdogVars>>

\* A _hookupEvents that runs as soon as the transport is ready, without
\* waiting for the promise of readyP.
HookupEvents_NoWait ==
    /\ pc = "awaitRobot"
    /\ pc' = "hooked"
    /\ hooked' = TRUE
    /\ readTimer' = TRUE
    /\ UNCHANGED <<wsReady, robotReady, startResolved, connected,
                   tableVars, dsVars, robotVars, obsVars>>
    /\ UNCHANGED <<simVars, watchdogVars>>

\* .then(this._hookupEvents.bind(this)): runs once readyP has resolved.
HookupEvents ==
    /\ pc = "awaitRobot"
    /\ robotReady
    /\ pc' = "hooked"
    /\ hooked' = TRUE
    /\ readTimer' = TRUE
    /\ UNCHANGED <<wsReady, robotReady, startResolved, connected,
                   tableVars, dsVars, robotVars, obsVars>>
    /\ UNCHANGED <<simVars, watchdogVars>>

\* The promise startP returned resolves after _hookupEvents has returned.
StartPResolved ==
    /\ pc = "hooked"
    /\ pc' = "resolved"
    /\ startResolved' = TRUE
    /\ UNCHANGED <<wsReady, robotReady, hooked, readTimer, connected,
                   tableVars, dsVars, robotVars, obsVars>>
    /\ UNCHANGED <<simVars, watchdogVars>>

\* ------------------------------------------------------------ helpers
\* A _checkChannelInit that adds the channel whether or not the message is
\* an init message.
checkChannelInit_AnyMessage(channel, initMsg, channelMap, defaultValue) ==
    IF channel \notin DOMAIN channelMap
    THEN MapSet(channelMap, channel, defaultValue)
    ELSE channelMap

\* A _checkChannelInit that sets the default entry at every init message.
checkChannelInit_EveryInit(channel, initMsg, channelMap, defaultValue) ==
    IF initMsg
    THEN MapSet(channelMap, channel, defaultValue)
    ELSE channelMap

\* _checkChannelInit: the channel Map after the call; the call returns
\* whether the channel is then in the Map.
checkChannelInit(channel, initMsg, channelMap, defaultValue) ==
    IF channel \notin DOMAIN channelMap /\ initMsg
    THEN MapSet(channelMap, channel, defaultValue)
    ELSE channelMap

\* _checkDeviceInit: the same for the device Maps.
checkDeviceInit(deviceIdent, initMsg, deviceMap, defaultValue) ==
    IF deviceIdent \notin DOMAIN deviceMap /\ initMsg
    THEN MapSet(deviceMap, deviceIdent, defaultValue)
    ELSE deviceMap

\* ---------------------------------------------------------------- PWM
\* A _pausePWMs that writes nothing.
pausePWMs_NoWrite(channels) ==
    <<>>

\* _pausePWMs: the calls it makes.
pausePWMs(channels) ==
    LET keys == KeysInOrder(DOMAIN channels)
    IN [i \in 1..Len(keys) |-> <<"setPWMValue", keys[i], PWM_NO_MOVEMENT>>]

\* _resumePWMs: the calls it makes.
resumePWMs(channels) ==
    LET keys == KeysInOrder(DOMAIN channels)
    IN [i \in 1..Len(keys) |-> <<"setPWMValue", keys[i], channels[keys[i]].currentValue>>]

\* _stopPWMs: the Map it leaves and the calls it makes.
stopPWMs(channels) ==
    LET keys == KeysInOrder(DOMAIN channels)
    IN [channels |-> [ch \in DOMAIN channels |->
                         [channels[ch] EXCEPT !.currentValue = PWM_NO_MOVEMENT]],
        calls |-> [i \in 1..Len(keys) |-> <<"setPWMValue", keys[i], PWM_NO_MOVEMENT>>]]

\* The value _handlePWMEvent computes from the payload (pwmValue).
pwmValueOf(payload) ==
    LET fromSpeed ==
            IF payload.speed # Undefined
            THEN Def(mapValue(Val(payload.speed), -100, 100, 0, 25500))
            ELSE Undefined
    IN IF payload.position # Undefined
       THEN Def(mapValue(Val(payload.position), 0, 100, 0, 25500))
       ELSE fromSpeed

\* A _handlePWMEvent without the test of _driverStationEnabled.
HandlePWMEvent_AlwaysEnabled(channel, payload) ==
    LET channelMap == checkChannelInit(channel, payload.init, pwmChannels,
                          [defaultValue |-> PWM_NO_MOVEMENT, currentValue |-> PWM_NO_MOVEMENT])
        pwmValue == pwmValueOf(payload)
    IN IF channel \in DOMAIN channelMap /\ pwmValue # Undefined
       THEN /\ pwmChannels' = [channelMap EXCEPT ![channel].currentValue = Val(pwmValue)]
            /\ lastCalls' = << <<"setPWMValue", channel, Val(pwmValue)>> >>
       ELSE /\ pwmChannels' = channelMap
            /\ lastCalls' = <<>>

\* _handlePWMEvent
HandlePWMEvent(channel, payload) ==
    LET channelMap == checkChannelInit(channel, payload.init, pwmChannels,
                          [defaultValue |-> PWM_NO_MOVEMENT, currentValue |-> PWM_NO_MOVEMENT])
        pwmValue == pwmValueOf(payload)
    IN IF channel \notin DOMAIN channelMap \/ ~driverStationEnabled
       THEN /\ pwmChannels' = channelMap
            /\ lastCalls' = <<>>
       ELSE IF pwmValue # Undefined
       THEN /\ pwmChannels' = [channelMap EXCEPT ![channel].currentValue = Val(pwmValue)]
            /\ lastCalls' = << <<"setPWMValue", channel, Val(pwmValue)>> >>
       ELSE /\ pwmChannels' = channelMap
            /\ lastCalls' = <<>>

\* ----------------------------------------------------- driver station
\* _checkModeChange: what it returns (modeChange) and the _dsMode it leaves.
checkModeChange(mode, payload) ==
    IF payload.autonomous # Undefined /\ mode.autonomous = Val(payload.autonomous)
    THEN [modeChange |-> TRUE,
          dsMode |-> [mode EXCEPT !.autonomous = Val(payload.autonomous)]]
    ELSE IF payload.test # Undefined /\ mode.test = Val(payload.test)
    THEN [modeChange |-> TRUE,
          dsMode |-> [mode EXCEPT !.test = Val(payload.test)]]
    ELSE [modeChange |-> FALSE, dsMode |-> mode]

\* _handleDriverStationEvent
HandleDriverStationEvent(payload) ==
    LET enabled == IF payload.enabled # Undefined
                   THEN Val(payload.enabled)
                   ELSE driverStationEnabled
        enableCalls == IF payload.enabled = Undefined THEN <<>>
                       ELSE IF ~enabled THEN pausePWMs(pwmChannels)
                       ELSE resumePWMs(pwmChannels)
        change == checkModeChange(dsMode, payload)
        stopped == stopPWMs(pwmChannels)
    IN /\ driverStationEnabled' = enabled
       /\ dsMode' = change.dsMode
       /\ pwmChannels' = IF change.modeChange THEN stopped.channels ELSE pwmChannels
       /\ lastCalls' = enableCalls \o (IF change.modeChange THEN stopped.calls ELSE <<>>)

\* ---------------------------------------------------------- lifecycle
\* _handleOpenConnection
HandleOpenConnection ==
    lastCalls' = << <<"onWSConnection">> >>

\* _resetEncoders: the calls it makes.
resetEncoders(channels) ==
    LET keys == KeysInOrder(DOMAIN channels)
    IN [i \in 1..Len(keys) |-> <<"resetEncoder", keys[i]>>]

\* A _handleCloseConnection that clears the PWM and encoder Maps before it
\* stops the PWMs and resets the encoders: both loops find nothing to visit.
HandleCloseConnection_ClearsFirst ==
    /\ dioChannels' = EmptyMap
    /\ ainChannels' = EmptyMap
    /\ aoutChannels' = EmptyMap
    /\ pwmChannels' = EmptyMap
    /\ encoderChannels' = EmptyMap
    /\ lastCalls' = stopPWMs(EmptyMap).calls
                        \o resetEncoders(EmptyMap)
                        \o << <<"onWSDisconnection">> >>
    /\ UNCHANGED <<pendingDioEvents, accelDevices, gyroDevices, dsVars>>

\* A _handleCloseConnection that leaves the encoder Map as it is.
HandleCloseConnection_KeepsEncoders ==
    /\ dioChannels' = EmptyMap
    /\ ainChannels' = EmptyMap
    /\ aoutChannels' = EmptyMap
    /\ pwmChannels' = EmptyMap
    /\ lastCalls' = stopPWMs(pwmChannels).calls
                        \o resetEncoders(encoderChannels)
                        \o << <<"onWSDisconnection">> >>
    /\ UNCHANGED <<encoderChannels, pendingDioEvents, accelDevices, gyroDevices, dsVars>>

\* _handleCloseConnection
HandleCloseConnection ==
    /\ dioChannels' = EmptyMap
    /\ ainChannels' = EmptyMap
    /\ aoutChannels' = EmptyMap
    /\ pwmChannels' = EmptyMap
    /\ encoderChannels' = EmptyMap
    /\ lastCalls' = stopPWMs(pwmChannels).calls
                        \o resetEncoders(encoderChannels)
                        \o << <<"onWSDisconnection">> >>
    /\ UNCHANGED <<pendingDioEvents, accelDevices, gyroDevices, dsVars>>

\* ---------------------------------------------------------------- DIO
NoPendingFields == [input |-> Undefined, value |-> Undefined]

\* A _handleDioEvent that applies a value whatever the mode of the channel.
HandleDioEvent_AnyMode(channel, payload) ==
    LET channelMap == checkChannelInit(channel, payload.init, dioChannels,
                          [mode |-> UNCONFIGURED, value |-> FALSE])
    IN IF channel \notin DOMAIN channelMap
       THEN /\ pendingDioEvents' = pendingDioEvents
            /\ dioChannels' = channelMap
            /\ lastCalls' = <<>>
       ELSE LET mode == IF payload.input = Undefined THEN channelMap[channel].mode
                        ELSE IF Val(payload.input) THEN INPUT ELSE OUTPUT
                modeCalls == IF payload.input = Undefined THEN <<>>
                             ELSE << <<"setDigitalChannelMode", channel, mode>> >>
                applies == payload.value # Undefined
            IN /\ pendingDioEvents' = pendingDioEvents
               /\ dioChannels' =
                      [channelMap EXCEPT ![channel] =
                          [mode |-> mode,
                           value |-> IF applies THEN Val(payload.value) ELSE @.value]]
               /\ lastCalls' =
                      modeCalls \o (IF applies
                                    THEN << <<"setDIOValue", channel, Val(payload.value)>> >>
                                    ELSE <<>>)

\* A _handleDioEvent that plays the saved fields back and keeps them.
HandleDioEvent_KeepsPending(channel, payload) ==
    LET channelMap == checkChannelInit(channel, payload.init, dioChannels,
                          [mode |-> UNCONFIGURED, value |-> FALSE])
    IN IF channel \notin DOMAIN channelMap
       THEN \* save the fields of a message sent before the init message
            LET saved == IF channel \in DOMAIN pendingDioEvents
                         THEN pendingDioEvents[channel]
                         ELSE NoPendingFields
                withInput == IF payload.input # Undefined
                             THEN [saved EXCEPT !.input = payload.input]
                             ELSE saved
                withValue == IF payload.value # Undefined
                             THEN [withInput EXCEPT !.value = payload.value]
                             ELSE withInput
            IN /\ pendingDioEvents' = MapSet(pendingDioEvents, channel, withValue)
               /\ dioChannels' = channelMap
               /\ lastCalls' = <<>>
       ELSE \* play back the saved fields, then apply the payload
            LET hasPending == channel \in DOMAIN pendingDioEvents
                input == IF /\ hasPending
                            /\ pendingDioEvents[channel].input # Undefined
                            /\ payload.input = Undefined
                         THEN pendingDioEvents[channel].input
                         ELSE payload.input
                value == IF /\ hasPending
                            /\ pendingDioEvents[channel].value # Undefined
                            /\ payload.value = Undefined
                         THEN pendingDioEvents[channel].value
                         ELSE payload.value
                mode == IF input = Undefined THEN channelMap[channel].mode
                        ELSE IF Val(input) THEN INPUT ELSE OUTPUT
                modeCalls == IF input = Undefined THEN <<>>
                             ELSE << <<"setDigitalChannelMode", channel, mode>> >>
                applies == value # Undefined /\ mode = OUTPUT
            IN /\ pendingDioEvents' = pendingDioEvents
               /\ dioChannels' =
                      [channelMap EXCEPT ![channel] =
                          [mode |-> mode,
                           value |-> IF applies THEN Val(value) ELSE @.value]]
               /\ lastCalls' =
                      modeCalls \o (IF applies
                                    THEN << <<"setDIOValue", channel, Val(value)>> >>
                                    ELSE <<>>)

\* _handleDioEvent
HandleDioEvent(channel, payload) ==
    LET channelMap == checkChannelInit(channel, payload.init, dioChannels,
                          [mode |-> UNCONFIGURED, value |-> FALSE])
    IN IF channel \notin DOMAIN channelMap
       THEN \* save the fields of a message sent before the init message
            LET saved == IF channel \in DOMAIN pendingDioEvents
                         THEN pendingDioEvents[channel]
                         ELSE NoPendingFields
                withInput == IF payload.input # Undefined
                             THEN [saved EXCEPT !.input = payload.input]
                             ELSE saved
                withValue == IF payload.value # Undefined
                             THEN [withInput EXCEPT !.value = payload.value]
                             ELSE withInput
            IN /\ pendingDioEvents' = MapSet(pendingDioEvents, channel, withValue)
               /\ dioChannels' = channelMap
               /\ lastCalls' = <<>>
       ELSE \* play back the saved fields, then apply the payload
            LET hasPending == channel \in DOMAIN pendingDioEvents
                input == IF /\ hasPending
                            /\ pendingDioEvents[channel].input # Undefined
                            /\ payload.input = Undefined
                         THEN pendingDioEvents[channel].input
                         ELSE payload.input
                value == IF /\ hasPending
                            /\ pendingDioEvents[channel].value # Undefined
                            /\ payload.value = Undefined
                         THEN pendingDioEvents[channel].value
                         ELSE payload.value
                mode == IF input = Undefined THEN channelMap[channel].mode
                        ELSE IF Val(input) THEN INPUT ELSE OUTPUT
                modeCalls == IF input = Undefined THEN <<>>
                             ELSE << <<"setDigitalChannelMode", channel, mode>> >>
                applies == value # Undefined /\ mode = OUTPUT
            IN /\ pendingDioEvents' =
                      [ch \in DOMAIN pendingDioEvents \ {channel} |-> pendingDioEvents[ch]]
               /\ dioChannels' =
                      [channelMap EXCEPT ![channel] =
                          [mode |-> mode,
                           value |-> IF applies THEN Val(value) ELSE @.value]]
               /\ lastCalls' =
                      modeCalls \o (IF applies
                                    THEN << <<"setDIOValue", channel, Val(value)>> >>
                                    ELSE <<>>)

\* ---------------------------------------------------------- analog in
\* _handleAnalogInEvent
HandleAnalogInEvent(channel, payload) ==
    /\ ainChannels' = checkChannelInit(channel, payload.init, ainChannels, 0)
    /\ lastCalls' = <<>>

\* ------------------------------------------------------------ encoder
\* _handleEncoderEvent
HandleEncoderEvent(channel, payload) ==
    LET channelMap == checkChannelInit(channel, payload.init, encoderChannels,
                          [channelA |-> payload.channel_a,
                           channelB |-> payload.channel_b,
                           count |-> 0])
    IN /\ encoderChannels' = channelMap
       /\ lastCalls' =
              IF channel \in DOMAIN channelMap /\ payload.init
              THEN << <<"registerEncoder", channel,
                        channelMap[channel].channelA, channelMap[channel].channelB>> >>
              ELSE <<>>

\* ------------------------------------------------ accelerometer, gyro
\* _handleAccelEvent
HandleAccelEvent(deviceName, deviceChannel, payload) ==
    LET deviceIdent == DeviceIdent(deviceName, deviceChannel)
        deviceMap == checkDeviceInit(deviceIdent, payload.init, accelDevices,
                         [accelX |-> 0, accelY |-> 0, accelZ |-> 0])
    IN /\ accelDevices' = deviceMap
       /\ accelRange' =
              IF /\ deviceIdent \in DOMAIN deviceMap
                 /\ deviceIdent \in RobotAccelIdents
                 /\ payload.range # Undefined
              THEN [accelRange EXCEPT ![deviceIdent] = Val(payload.range)]
              ELSE accelRange
       /\ lastCalls' = <<>>

\* _handleGyroEvent
HandleGyroEvent(deviceName, deviceChannel, payload) ==
    LET deviceIdent == DeviceIdent(deviceName, deviceChannel)
        deviceMap == checkDeviceInit(deviceIdent, payload.init, gyroDevices,
                         [rateX |-> 0, rateY |-> 0, rateZ |-> 0,
                          angleX |-> 0, angleY |-> 0, angleZ |-> 0])
    IN /\ gyroDevices' = deviceMap
       /\ gyroRange' =
              IF /\ deviceIdent \in DOMAIN deviceMap
                 /\ deviceIdent \in RobotGyroIdents
                 /\ payload.range # Undefined
              THEN [gyroRange EXCEPT ![deviceIdent] = Val(payload.range)]
              ELSE gyroRange
       /\ lastCalls' = <<>>

\* ---------------------------------------------------------- SimDevice
\* A string is the sequence of its characters, so that a prefix is looked
\* for and cut off as the code does it.
INPUT_TO_ROBOT_CODE == "INPUT_TO_ROBOT_CODE"
OUTPUT_FROM_ROBOT_CODE == "OUTPUT_FROM_ROBOT_CODE"
BIDIR == "BIDIR"
UNK == "UNK"
FieldDirection == {INPUT_TO_ROBOT_CODE, OUTPUT_FROM_ROBOT_CODE, BIDIR, UNK}

\* dirPrefix
dirPrefix(dir) ==
    CASE dir = INPUT_TO_ROBOT_CODE -> <<">">>
      [] dir = OUTPUT_FROM_ROBOT_CODE -> <<"<">>
      [] dir = BIDIR -> <<"<", ">">>
      [] dir = UNK -> <<>>

\* fieldWithDirectionPrefix
fieldWithDirectionPrefix(field, dir) ==
    dirPrefix(dir) \o field

\* str.indexOf(prefix) === 0
StartsWith(str, prefix) ==
    /\ Len(str) >= Len(prefix)
    /\ SubSeq(str, 1, Len(prefix)) = prefix

\* str.substr(from), from counted from 0
Substr(str, from) ==
    SubSeq(str, from + 1, Len(str))

\* fieldNameAndDirection
fieldNameAndDirection_SingleCharFirst(str) ==
    IF StartsWith(str, <<"<">>)
    THEN [field |-> Substr(str, 1), direction |-> OUTPUT_FROM_ROBOT_CODE]
    ELSE IF StartsWith(str, <<">">>)
    THEN [field |-> Substr(str, 1), direction |-> INPUT_TO_ROBOT_CODE]
    ELSE IF StartsWith(str, <<"<", ">">>)
    THEN [field |-> Substr(str, 2), direction |-> BIDIR]
    ELSE [field |-> str, direction |-> UNK]

fieldNameAndDirection(str) ==
    IF StartsWith(str, <<"<", ">">>)
    THEN [field |-> Substr(str, 2), direction |-> BIDIR]
    ELSE IF StartsWith(str, <<"<">>)
    THEN [field |-> Substr(str, 1), direction |-> OUTPUT_FROM_ROBOT_CODE]
    ELSE IF StartsWith(str, <<">">>)
    THEN [field |-> Substr(str, 1), direction |-> INPUT_TO_ROBOT_CODE]
    ELSE [field |-> str, direction |-> UNK]

\* new SimDevice(name, index, channel): no field registered yet.
NewSimDevice ==
    [fieldNameToIdent |-> EmptyMap, fields |-> EmptyMap]

\* A registerField that takes a field for a duplicate by its identifier.
registerField_DuplicateByIdent(device, field, direction, defaultValue) ==
    LET fieldIdent == fieldWithDirectionPrefix(field, direction)
    IN IF fieldIdent \in DOMAIN device.fields
       THEN [device |-> device, threw |-> TRUE]
       ELSE [device |-> [fieldNameToIdent |-> MapSet(device.fieldNameToIdent, field, fieldIdent),
                         fields |-> MapSet(device.fields, fieldIdent, defaultValue)],
             threw |-> FALSE]

\* A registerField without the duplicate test.
registerField_Overwrites(device, field, direction, defaultValue) ==
    LET fieldIdent == fieldWithDirectionPrefix(field, direction)
    IN [device |-> [fieldNameToIdent |-> MapSet(device.fieldNameToIdent, field, fieldIdent),
                    fields |-> MapSet(device.fields, fieldIdent, defaultValue)],
        threw |-> FALSE]

\* SimDevice.registerField: the device it leaves and whether it threw the
\* duplicate-field error.
registerField(device, field, direction, defaultValue) ==
    LET fieldIdent == fieldWithDirectionPrefix(field, direction)
    IN IF field \in DOMAIN device.fieldNameToIdent
       THEN [device |-> device, threw |-> TRUE]
       ELSE [device |-> [fieldNameToIdent |-> MapSet(device.fieldNameToIdent, field, fieldIdent),
                         fields |-> MapSet(device.fields, fieldIdent, defaultValue)],
             threw |-> FALSE]

\* A getValue that looks its argument up in _fields as it is.
getValue_ExactIdent(device, fieldNameOrIdent) ==
    IF fieldNameOrIdent \in DOMAIN device.fields
    THEN Def(device.fields[fieldNameOrIdent])
    ELSE Undefined

\* SimDevice.getValue: Undefined, or the stored value.
getValue(device, fieldNameOrIdent) ==
    LET fieldNameAndDir == fieldNameAndDirection(fieldNameOrIdent)
    IN IF fieldNameAndDir.field \in DOMAIN device.fieldNameToIdent
       THEN LET fieldIdent == device.fieldNameToIdent[fieldNameAndDir.field]
            IN IF fieldIdent \in DOMAIN device.fields
               THEN Def(device.fields[fieldIdent])
               ELSE Undefined
       ELSE Undefined

\* A setValue that stores the value under its argument as it is.
setValue_UnderGivenKey(device, fieldNameOrIdent, value) ==
    LET fieldNameAndDir == fieldNameAndDirection(fieldNameOrIdent)
    IN IF fieldNameAndDir.field \notin DOMAIN device.fieldNameToIdent
       THEN [device |-> device, calls |-> <<>>]
       ELSE [device |-> [device EXCEPT !.fields = MapSet(@, fieldNameOrIdent, value)],
             calls |-> << <<"_onSetValue", fieldNameAndDir.field, value>> >>]

\* A setValue that stores the value of a field that is not registered.
setValue_CreatesField(device, fieldNameOrIdent, value) ==
    LET fieldNameAndDir == fieldNameAndDirection(fieldNameOrIdent)
        fieldIdent == IF fieldNameAndDir.field \in DOMAIN device.fieldNameToIdent
                      THEN device.fieldNameToIdent[fieldNameAndDir.field]
                      ELSE fieldNameOrIdent
    IN [device |-> [device EXCEPT !.fields = MapSet(@, fieldIdent, value)],
        calls |-> << <<"_onSetValue", fieldNameAndDir.field, value>> >>]

\* SimDevice.setValue: the device it leaves and the calls of _onSetValue.
setValue(device, fieldNameOrIdent, value) ==
    LET fieldNameAndDir == fieldNameAndDirection(fieldNameOrIdent)
    IN IF fieldNameAndDir.field \notin DOMAIN device.fieldNameToIdent
       THEN [device |-> device, calls |-> <<>>]
       ELSE LET fieldIdent == device.fieldNameToIdent[fieldNameAndDir.field]
            IN [device |-> [device EXCEPT !.fields = MapSet(@, fieldIdent, value)],
                calls |-> << <<"_onSetValue", fieldNameAndDir.field, value>> >>]

\* SimDevice.getFieldsAsIdents: the keys of _fields (a Map holds each key
\* once; the order of the array is not kept).
getFieldsAsIdents(device) ==
    DOMAIN device.fields

\* Some enumeration of a finite set, for the order in which forEach visits
\* the entries of a Map whose keys have no order of their own.
SomeOrder(set) ==
    CHOOSE seq \in [1..Cardinality(set) -> set] :
        \A e \in set : \E i \in DOMAIN seq : seq[i] = e

\* A read that stages the fields of every direction.
ReadSimDevice_AllDirections(device, deviceFields) ==
    LET idents == getFieldsAsIdents(device)
        firstSeen(ident) == ident \notin DOMAIN deviceFields
        changed(ident) == ~firstSeen(ident) /\ getValue(device, ident) # deviceFields[ident]
        staged == {ident \in idents : firstSeen(ident) \/ changed(ident)}
    IN [deviceFields |->
            [ident \in DOMAIN deviceFields \cup idents |->
                IF ident \in idents /\ (firstSeen(ident) \/ changed(ident))
                THEN getValue(device, ident)
                ELSE deviceFields[ident]],
        deviceUpdates |-> [ident \in staged |-> getValue(device, ident)]]

\* A read that caches a field when it first sees it and never again.
ReadSimDevice_CacheFirstValue(device, deviceFields) ==
    LET idents == getFieldsAsIdents(device)
        firstSeen(ident) == ident \notin DOMAIN deviceFields
        changed(ident) == ~firstSeen(ident) /\ getValue(device, ident) # deviceFields[ident]
        toWpilib(ident) ==
            fieldNameAndDirection(ident).direction \in {BIDIR, INPUT_TO_ROBOT_CODE}
        staged == {ident \in idents : (firstSeen(ident) \/ changed(ident)) /\ toWpilib(ident)}
    IN [deviceFields |->
            [ident \in DOMAIN deviceFields \cup idents |->
                IF ident \in idents /\ firstSeen(ident)
                THEN getValue(device, ident)
                ELSE deviceFields[ident]],
        deviceUpdates |-> [ident \in staged |-> getValue(device, ident)]]

\* _handleReadSimDevices for one device: the cache of the device it leaves
\* and the update it stages.
ReadSimDevice(device, deviceFields) ==
    LET idents == getFieldsAsIdents(device)
        firstSeen(ident) == ident \notin DOMAIN deviceFields
        changed(ident) == ~firstSeen(ident) /\ getValue(device, ident) # deviceFields[ident]
        toWpilib(ident) ==
            fieldNameAndDirection(ident).direction \in {BIDIR, INPUT_TO_ROBOT_CODE}
        staged == {ident \in idents : (firstSeen(ident) \/ changed(ident)) /\ toWpilib(ident)}
    IN [deviceFields |->
            [ident \in DOMAIN deviceFields \cup idents |->
                IF ident \in idents /\ (firstSeen(ident) \/ changed(ident))
                THEN getValue(device, ident)
                ELSE deviceFields[ident]],
        deviceUpdates |-> [ident \in staged |-> getValue(device, ident)]]

\* _handleReadSimDevices: the _simDeviceFields it leaves and the messages
\* it sends.
ReadSimDevices(devices, shadow) ==
    LET read(d) == ReadSimDevice(devices[d], IF d \in DOMAIN shadow THEN shadow[d] ELSE EmptyMap)
        sending == {d \in DOMAIN devices : DOMAIN read(d).deviceUpdates # {}}
        order == SomeOrder(sending)
    IN [shadow |-> [d \in DOMAIN shadow \cup DOMAIN devices |->
                       IF d \in DOMAIN devices THEN read(d).deviceFields ELSE shadow[d]],
        sent |-> [i \in 1..Cardinality(sending) |->
                     <<"simDeviceUpdateToWpilib", order[i], read(order[i]).deviceUpdates>>]]

\* _handleSimDeviceEvent: the devices it leaves and the calls of
\* _onSetValue.  The payload is the sequence of its keys with their values.
RECURSIVE SetValues(_, _)
SetValues(device, payload) ==
    IF payload = <<>> THEN [device |-> device, calls |-> <<>>]
    ELSE LET first == setValue(device, Head(payload)[1], Head(payload)[2])
             rest == SetValues(first.device, Tail(payload))
         IN [device |-> rest.device, calls |-> first.calls \o rest.calls]

\* A handler that applies the first key of the payload and no other.
HandleSimDeviceEvent_FirstKey(deviceName, deviceChannel, payload) ==
    LET deviceIdent == DeviceIdent(deviceName, deviceChannel)
    IN IF deviceIdent \notin DOMAIN simDevices
       THEN /\ simDevices' = simDevices
            /\ lastCalls' = <<>>
       ELSE LET done == SetValues(simDevices[deviceIdent],
                                   IF payload = <<>> THEN <<>> ELSE <<Head(payload)>>)
            IN /\ simDevices' = [simDevices EXCEPT ![deviceIdent] = done.device]
               /\ lastCalls' = done.calls

HandleSimDeviceEvent(deviceName, deviceChannel, payload) ==
    LET deviceIdent == DeviceIdent(deviceName, deviceChannel)
    IN IF deviceIdent \notin DOMAIN simDevices
       THEN /\ simDevices' = simDevices
            /\ lastCalls' = <<>>
       ELSE LET done == SetValues(simDevices[deviceIdent], payload)
            IN /\ simDevices' = [simDevices EXCEPT ![deviceIdent] = done.device]
               /\ lastCalls' = done.calls

\* ------------------------------------------------------- polling tick
\* What the robot's getters may return.
Voltages == {0, 5}
Counts == {0, 7}
Periods == {1}
BatteryPercentages == {0, 1}
AccelReadings == [accelX : {0, 1}, accelY : {0}, accelZ : {0}]
GyroReadings == [rateX : {0, 1}, rateY : {0}, rateZ : {0},
                 angleX : {0}, angleY : {0}, angleZ : {0}]

\* The fields of a reading that differ from the stored ones, in the order
\* the code compares them.
RECURSIVE ChangedFields(_, _, _)
ChangedFields(fields, stored, reading) ==
    IF fields = <<>> THEN <<>>
    ELSE (IF reading[Head(fields)] # stored[Head(fields)]
          THEN << <<Head(fields), reading[Head(fields)]>> >>
          ELSE <<>>) \o ChangedFields(Tail(fields), stored, reading)

\* A read that sends every field of a sensor as soon as one of them differs.
ReadDevices_EveryField(devices, keys, getter, read, fields, update) ==
    LET idents == {d \in DOMAIN read : keys[d] \in DOMAIN devices}
        changed(d) == ChangedFields(fields, devices[keys[d]], read[d])
        sending == {d \in idents : changed(d) # <<>>}
        order == CHOOSE seq \in [1..Cardinality(sending) -> sending] :
                     \A d \in sending : \E i \in DOMAIN seq : seq[i] = d
    IN [devices |-> [k \in DOMAIN devices |->
                        IF \E d \in idents : keys[d] = k
                        THEN read[CHOOSE d \in idents : keys[d] = k]
                        ELSE devices[k]],
        calls |-> << <<getter, read>> >>,
        sent |-> [i \in 1..Cardinality(sending) |->
                     <<update, keys[order[i]],
                       [j \in 1..Len(fields) |-> <<fields[j], read[order[i]][fields[j]]>>]>>]]

\* _handleReadAccels / _handleReadGyros, given the values that the sensors
\* of the robot hold (what `getter` returns) and the identifier that the
\* handler builds for each: sensors whose identifier is not in the Map are
\* skipped.
ReadDevices(devices, keys, getter, read, fields, update) ==
    LET idents == {d \in DOMAIN read : keys[d] \in DOMAIN devices}
        changed(d) == ChangedFields(fields, devices[keys[d]], read[d])
        sending == {d \in idents : changed(d) # <<>>}
        order == CHOOSE seq \in [1..Cardinality(sending) -> sending] :
                     \A d \in sending : \E i \in DOMAIN seq : seq[i] = d
    IN [devices |-> [k \in DOMAIN devices |->
                        IF \E d \in idents : keys[d] = k
                        THEN read[CHOOSE d \in idents : keys[d] = k]
                        ELSE devices[k]],
        calls |-> << <<getter, read>> >>,
        sent |-> [i \in 1..Cardinality(sending) |->
                     <<update, keys[order[i]], changed(order[i])>>]]

\* A read that reports an input only when its value differs from the cached one.
ReadDigitalInputs_OnChange(channels, read) ==
    LET keys == KeysInOrder({ch \in DOMAIN channels : channels[ch].mode = INPUT})
        moved == KeysInOrder({ch \in DOMAIN channels :
                                 channels[ch].mode = INPUT /\ read[ch] # channels[ch].value})
    IN [channels |-> [ch \in DOMAIN channels |->
                         IF channels[ch].mode = INPUT
                         THEN [channels[ch] EXCEPT !.value = read[ch]]
                         ELSE channels[ch]],
        calls |-> [i \in 1..Len(keys) |-> <<"getDIOValue", keys[i]>>],
        sent |-> [i \in 1..Len(moved) |-> <<"dioUpdateToWpilib", moved[i], read[moved[i]]>>]]

\* _handleReadDigitalInputs, given what getDIOValue returns per channel.
ReadDigitalInputs(channels, read) ==
    LET keys == KeysInOrder({ch \in DOMAIN channels : channels[ch].mode = INPUT})
    IN [channels |-> [ch \in DOMAIN channels |->
                         IF channels[ch].mode = INPUT
                         THEN [channels[ch] EXCEPT !.value = read[ch]]
                         ELSE channels[ch]],
        calls |-> [i \in 1..Len(keys) |-> <<"getDIOValue", keys[i]>>],
        sent |-> [i \in 1..Len(keys) |-> <<"dioUpdateToWpilib", keys[i], read[keys[i]]>>]]

\* _handleReadAnalogInputs, given what getAnalogInVoltage returns per channel.
ReadAnalogInputs(channels, read) ==
    LET keys == KeysInOrder(DOMAIN channels)
    IN [channels |-> [ch \in DOMAIN channels |-> read[ch]],
        calls |-> [i \in 1..Len(keys) |-> <<"getAnalogInVoltage", keys[i]>>],
        sent |-> [i \in 1..Len(keys) |-> <<"analogInUpdateToWpilib", keys[i], read[keys[i]]>>]]

\* A read that sends the count of the cache.
ReadEncoderInputs_CachedCount(channels, count, period) ==
    LET keys == KeysInOrder(DOMAIN channels)
    IN [channels |-> [ch \in DOMAIN channels |->
                         [channels[ch] EXCEPT !.count = count[ch]]],
        calls |-> [i \in 1..2 * Len(keys) |->
                      IF i % 2 = 1
                      THEN <<"getEncoderCount", keys[(i + 1) \div 2],
                             count[keys[(i + 1) \div 2]]>>
                      ELSE <<"getEncoderPeriod", keys[i \div 2], period[keys[i \div 2]]>>],
        sent |-> [i \in 1..Len(keys) |->
                     <<"encoderUpdateToWpilib", keys[i], channels[keys[i]].count,
                       period[keys[i]]>>]]

\* _handleReadEncoderInputs, given what getEncoderCount and getEncoderPeriod
\* return per channel.
ReadEncoderInputs(channels, count, period) ==
    LET keys == KeysInOrder(DOMAIN channels)
    IN [channels |-> [ch \in DOMAIN channels |->
                         [channels[ch] EXCEPT !.count = count[ch]]],
        calls |-> [i \in 1..2 * Len(keys) |->
                      IF i % 2 = 1
                      THEN <<"getEncoderCount", keys[(i + 1) \div 2],
                             count[keys[(i + 1) \div 2]]>>
                      ELSE <<"getEncoderPeriod", keys[i \div 2], period[keys[i \div 2]]>>],
        sent |-> [i \in 1..Len(keys) |->
                     <<"encoderUpdateToWpilib", keys[i], count[keys[i]], period[keys[i]]>>]]

\* A read that tests the percentage against zero for inequality.
ReadBattery_NonZero(first, second) ==
    [calls |-> IF first # 0
               THEN << <<"getBatteryPercentage", first>>, <<"getBatteryPercentage", second>> >>
               ELSE << <<"getBatteryPercentage", first>> >>,
     sent |-> IF first # 0
              THEN << <<"roboRioUpdateToWpilib", second * 12>> >>
              ELSE <<>>]

\* _handleReadBattery, given what the two calls of getBatteryPercentage return.
ReadBattery(first, second) ==
    [calls |-> IF first > 0
               THEN << <<"getBatteryPercentage", first>>, <<"getBatteryPercentage", second>> >>
               ELSE << <<"getBatteryPercentage", first>> >>,
     sent |-> IF first > 0
              THEN << <<"roboRioUpdateToWpilib", second * 12>> >>
              ELSE <<>>]

\* What the calls of getBatteryPercentage of one tick may return: the second
\* call is made only after a first one that returned a positive percentage.
BatteryReadPairs(percentages) ==
    {b \in percentages \X percentages : b[1] <= 0 => b[2] = b[1]}

\* The callback of the setInterval that _hookupEvents starts, on a robot
\* whose getBatteryPercentage returns one of `percentages` and whose sensors
\* hold one of `accels` and one of `gyros`.
PollingTickOn(percentages, accels, gyros) ==
    \E dioRead \in [DOMAIN dioChannels -> BOOLEAN],
       ainRead \in [DOMAIN ainChannels -> Voltages],
       count \in [DOMAIN encoderChannels -> Counts],
       period \in [DOMAIN encoderChannels -> Periods],
       battery \in BatteryReadPairs(percentages),
       accelRead \in [RobotAccelIdents \cap DOMAIN accelDevices -> accels],
       gyroRead \in [RobotGyroIdents \cap DOMAIN gyroDevices -> gyros] :
        LET dio == ReadDigitalInputs(dioChannels, dioRead)
            ain == ReadAnalogInputs(ainChannels, ainRead)
            enc == ReadEncoderInputs(encoderChannels, count, period)
            bat == ReadBattery(battery[1], battery[2])
            sim == ReadSimDevices(simDevices, simDeviceFields)
            acc == ReadDevices(accelDevices, AccelKeys, "getAllAccelerometers", accelRead,
                               <<"accelX", "accelY", "accelZ">>, "accelUpdateToWpilib")
            gyr == ReadDevices(gyroDevices, GyroKeys, "getAllGyros", gyroRead,
                               <<"rateX", "rateY", "rateZ", "angleX", "angleY", "angleZ">>,
                               "gyroUpdateToWpilib")
        IN /\ dioChannels' = dio.channels
           /\ ainChannels' = ain.channels
           /\ encoderChannels' = enc.channels
           /\ accelDevices' = acc.devices
           /\ gyroDevices' = gyr.devices
           /\ lastCalls' = dio.calls \o ain.calls \o enc.calls \o bat.calls
                               \o acc.calls \o gyr.calls
           /\ simDeviceFields' = sim.shadow
           /\ lastSent' = dio.sent \o ain.sent \o enc.sent \o bat.sent
                              \o sim.sent \o acc.sent \o gyr.sent

\* ------------------------------------------------------------- events
\* What the delivery of every inbound message has in common: the listeners
\* are attached, the connection is open, and the robot records the calls.
Delivered(event) ==
    /\ hooked
    /\ connected
    /\ lastEvent' = event
    /\ lastSent' = <<>>
    /\ hwPWM' = RobotPWMAfter(hwPWM, lastCalls')
    /\ UNCHANGED <<startVars, connected>>

\* The payload carries an autonomous or test field that differs from the stored one.
ModeFieldDiffers(mode, payload) ==
    \/ payload.autonomous # Undefined /\ Val(payload.autonomous) # mode.autonomous
    \/ payload.test # Undefined /\ Val(payload.test) # mode.test

InitSeenAfter(table, key, initMsg) ==
    IF initMsg THEN [initSeen EXCEPT ![table] = @ \cup {key}] ELSE initSeen

\* The transport emits "pwmEvent".
PWMEventOn(channels, payloads) ==
    \E channel \in channels, payload \in payloads :
        /\ HandlePWMEvent(channel, payload)
        /\ Delivered(Event("pwm", channel, <<>>, payload))
        /\ initSeen' = InitSeenAfter("pwm", channel, payload.init)
        /\ commanded' = IF lastCalls' # <<>>
                        THEN [commanded EXCEPT ![channel] = Def(lastCalls'[1][3])]
                        ELSE commanded
        /\ UNCHANGED <<dioChannels, pendingDioEvents, ainChannels, aoutChannels,
                       encoderChannels, accelDevices, gyroDevices, dsVars,
                       accelRange, gyroRange>>
        /\ UNCHANGED <<simVars, watchdogVars>>

\* The handler of "driverStationEvent" runs for a payload.
DriverStationDelivery(payload) ==
    /\ HandleDriverStationEvent(payload)
    /\ Delivered(Event("driverStation", NullChannel, <<>>, payload))
    /\ commanded' = IF ModeFieldDiffers(dsMode, payload)
                    THEN NoneCommanded
                    ELSE commanded
    /\ UNCHANGED <<dioChannels, pendingDioEvents, ainChannels, aoutChannels,
                   encoderChannels, accelDevices, gyroDevices,
                   accelRange, gyroRange, initSeen>>
    /\ UNCHANGED simVars

\* The transport emits "driverStationEvent".
DriverStationEventOn(payloads) ==
    \E payload \in payloads :
        /\ DriverStationDelivery(payload)
        /\ UNCHANGED watchdogVars

\* ------------------------------------- driver-station packet watchdog
\* The watchdog of the driver-station packets sees a packet: when it had
\* timed out (as it has at the start), it calls onDSPacketTimeoutCleared.
PacketArrives ==
    IF dsPacketTimedOut
    THEN /\ dsPacketTimedOut' = FALSE
         /\ lastNotice' = "cleared"
         /\ prevNotice' = lastNotice
    ELSE UNCHANGED watchdogVars

\* A timeout that is notified whether or not the watchdog had timed out.
PacketTimeout_Unguarded ==
    /\ dsPacketTimedOut' = TRUE
    /\ lastNotice' = "occurred"
    /\ prevNotice' = lastNotice
    /\ lastEvent' = Event("dsPacketTimeout", NullChannel, <<>>, <<>>)
    /\ lastCalls' = << <<"onDSPacketTimeoutOccurred">> >>
    /\ lastSent' = <<>>
    /\ UNCHANGED <<startVars, connected, tableVars, dsVars, robotVars, initSeen, commanded,
                   simVars>>

\* No packet arrived within the timeout period since the last one: the
\* watchdog calls onDSPacketTimeoutOccurred.
PacketTimeout ==
    /\ ~dsPacketTimedOut
    /\ dsPacketTimedOut' = TRUE
    /\ lastNotice' = "occurred"
    /\ prevNotice' = lastNotice
    /\ lastEvent' = Event("dsPacketTimeout", NullChannel, <<>>, <<>>)
    /\ lastCalls' = << <<"onDSPacketTimeoutOccurred">> >>
    /\ lastSent' = <<>>
    /\ UNCHANGED <<startVars, connected, tableVars, dsVars, robotVars, initSeen, commanded,
                   simVars>>

\* The transport emits "driverStationEvent" and the watchdog sees it.
DriverStationPacketOn(payloads) ==
    \E payload \in payloads :
        /\ DriverStationDelivery(payload)
        /\ PacketArrives

\* The transport emits "dioEvent".
DioEventOn(channels, payloads) ==
    \E channel \in channels, payload \in payloads :
        /\ HandleDioEvent(channel, payload)
        /\ Delivered(Event("dio", channel, <<>>, payload))
        /\ initSeen' = InitSeenAfter("dio", channel, payload.init)
        /\ UNCHANGED commanded
        /\ UNCHANGED <<ainChannels, aoutChannels, pwmChannels, encoderChannels,
                       accelDevices, gyroDevices, dsVars, accelRange, gyroRange>>
        /\ UNCHANGED <<simVars, watchdogVars>>

\* The transport emits "analogInEvent".
AnalogInEventOn(channels, payloads) ==
    \E channel \in channels, payload \in payloads :
        /\ HandleAnalogInEvent(channel, payload)
        /\ Delivered(Event("analogIn", channel, <<>>, payload))
        /\ initSeen' = InitSeenAfter("ain", channel, payload.init)
        /\ UNCHANGED commanded
        /\ UNCHANGED <<dioChannels, pendingDioEvents, aoutChannels, pwmChannels,
                       encoderChannels, accelDevices, gyroDevices, dsVars,
                       accelRange, gyroRange>>
        /\ UNCHANGED <<simVars, watchdogVars>>

\* The transport emits "analogOutEvent": _hookupEvents attaches no listener
\* for it, so no handler runs.
AnalogOutEventOn(channels, payloads) ==
    \E channel \in channels, payload \in payloads :
        /\ lastCalls' = <<>>
        /\ Delivered(Event("analogOut", channel, <<>>, payload))
        /\ UNCHANGED <<tableVars, dsVars, accelRange, gyroRange, initSeen, commanded>>
        /\ UNCHANGED <<simVars, watchdogVars>>

\* The transport emits "encoderEvent".
EncoderEventOn(channels, payloads) ==
    \E channel \in channels, payload \in payloads :
        /\ HandleEncoderEvent(channel, payload)
        /\ Delivered(Event("encoder", channel, <<>>, payload))
        /\ initSeen' = InitSeenAfter("encoder", channel, payload.init)
        /\ UNCHANGED commanded
        /\ UNCHANGED <<dioChannels, pendingDioEvents, ainChannels, aoutChannels,
                       pwmChannels, accelDevices, gyroDevices, dsVars,
                       accelRange, gyroRange>>
        /\ UNCHANGED <<simVars, watchdogVars>>

\* The transport emits "accelEvent".
AccelEvent ==
    \E address \in AccelAddresses, payload \in AccelPayloads :
        /\ HandleAccelEvent(address[1], address[2], payload)
        /\ Delivered(Event("accel", NullChannel, address, payload))
        /\ initSeen' = InitSeenAfter("accel", DeviceIdent(address[1], address[2]), payload.init)
        /\ UNCHANGED commanded
        /\ UNCHANGED <<dioChannels, pendingDioEvents, ainChannels, aoutChannels,
                       pwmChannels, encoderChannels, gyroDevices, dsVars, gyroRange>>
        /\ UNCHANGED <<simVars, watchdogVars>>

\* The transport emits "gyroEvent".
GyroEvent ==
    \E address \in GyroAddresses, payload \in GyroPayloads :
        /\ HandleGyroEvent(address[1], address[2], payload)
        /\ Delivered(Event("gyro", NullChannel, address, payload))
        /\ initSeen' = InitSeenAfter("gyro", DeviceIdent(address[1], address[2]), payload.init)
        /\ UNCHANGED commanded
        /\ UNCHANGED <<dioChannels, pendingDioEvents, ainChannels, aoutChannels,
                       pwmChannels, encoderChannels, accelDevices, dsVars, accelRange>>
        /\ UNCHANGED <<simVars, watchdogVars>>

\* The transport emits "openConnection".
OpenConnection ==
    /\ hooked
    /\ ~connected
    /\ connected' = TRUE
    /\ HandleOpenConnection
    /\ lastEvent' = Event("open", NullChannel, <<>>, <<>>)
    /\ lastSent' = <<>>
    /\ UNCHANGED <<startVars, tableVars, dsVars, robotVars, initSeen, commanded>>
    /\ UNCHANGED <<simVars, watchdogVars>>

\* The transport emits "closeConnection".
CloseConnection ==
    /\ hooked
    /\ connected
    /\ connected' = FALSE
    /\ HandleCloseConnection
    /\ lastEvent' = Event("close", NullChannel, <<>>, <<>>)
    /\ lastSent' = <<>>
    /\ hwPWM' = RobotPWMAfter(hwPWM, lastCalls')
    /\ initSeen' = NoInitSeen
    /\ commanded' = NoneCommanded
    /\ UNCHANGED <<startVars, accelRange, gyroRange>>
    /\ UNCHANGED <<simVars, watchdogVars>>

\* A connection opens or closes before the listeners are attached: the
\* transport's events reach no handler.
UnheardOpen ==
    /\ wsReady
    /\ ~hooked
    /\ ~connected
    /\ connected' = TRUE
    /\ UNCHANGED <<startVars, tableVars, dsVars, robotVars, obsVars>>
    /\ UNCHANGED <<simVars, watchdogVars>>

UnheardClose ==
    /\ ~hooked
    /\ connected
    /\ connected' = FALSE
    /\ UNCHANGED <<startVars, tableVars, dsVars, robotVars, obsVars>>
    /\ UNCHANGED <<simVars, watchdogVars>>

\* The polling timer fires.
\* The value of every registered field of every SimDevice.
FieldValues ==
    [deviceIdent \in DOMAIN registry |->
        [name \in DOMAIN registry[deviceIdent] |-> registry[deviceIdent][name].value]]

TimerFiresOn(percentages, accels, gyros) ==
    /\ readTimer
    /\ PollingTickOn(percentages, accels, gyros)
    /\ lastEvent' = Event("tick", NullChannel, <<>>, <<>>)
    /\ UNCHANGED <<startVars, connected, pendingDioEvents, aoutChannels, pwmChannels,
                   dsVars, robotVars, initSeen, commanded>>
    /\ tickValues' = FieldValues
    /\ UNCHANGED <<simDevices, lastReturn, registry, watchdogVars>>

TimerFires == TimerFiresOn(BatteryPercentages, AccelReadings, GyroReadings)

\* ------------------------------------------------- SimDevice operations
restOfEngine == <<startVars, connected, tableVars, dsVars, robotVars, obsVars,
                  simDeviceFields, tickValues, watchdogVars>>

\* The registry after a setValue that names the field by `name`, prefixed or
\* not.
RegistryAfterSet(reg, name, value) ==
    IF name \in DOMAIN reg THEN [reg EXCEPT ![name].value = value] ELSE reg

\* The registerField calls of a SimDevice's constructor, in order, each a
\* name, a direction and a default: the device and the registry they leave.
RECURSIVE RegisterFields(_, _, _)
RegisterFields(device, reg, layout) ==
    IF layout = <<>> THEN [device |-> device, registry |-> reg]
    ELSE LET done == registerField(device, Head(layout)[1], Head(layout)[2], Head(layout)[3])
         IN RegisterFields(done.device,
                           IF done.threw THEN reg
                           ELSE MapSet(reg, Head(layout)[1],
                                       [direction |-> Head(layout)[2],
                                        default |-> Head(layout)[3],
                                        value |-> Head(layout)[3]]),
                           Tail(layout))

\* The robot's constructor makes a SimDevice, whose constructor registers
\* its fields, and registers the device.
ConstructSimDeviceOn(addresses, layouts) ==
    \E address \in addresses, layout \in layouts :
        LET deviceIdent == DeviceIdent(address[1], address[2])
            made == RegisterFields(NewSimDevice, EmptyMap, layout)
        IN /\ pc = "constructed"
           /\ deviceIdent \notin DOMAIN simDevices
           /\ simDevices' = MapSet(simDevices, deviceIdent, made.device)
           /\ registry' = MapSet(registry, deviceIdent, made.registry)
           /\ UNCHANGED <<restOfEngine, lastReturn>>

\* The robot's own code gives a field of a SimDevice a value, by its bare
\* name.
FieldValueChangesOn(addresses, names) ==
    \E address \in addresses, name \in names, value \in SimValues :
        LET deviceIdent == DeviceIdent(address[1], address[2])
        IN /\ deviceIdent \in DOMAIN simDevices
           /\ simDevices' = [simDevices EXCEPT
                                 ![deviceIdent] = setValue(@, name, value).device]
           /\ registry' = [registry EXCEPT ![deviceIdent] = RegistryAfterSet(@, name, value)]
           /\ UNCHANGED <<restOfEngine, lastReturn>>

\* The robot calls registerField of a SimDevice.
RegisterFieldOn(addresses, names, defaults) ==
    \E address \in addresses, name \in names, direction \in FieldDirection,
       defaultValue \in defaults :
        LET deviceIdent == DeviceIdent(address[1], address[2])
        IN /\ deviceIdent \in DOMAIN simDevices
           /\ LET done == registerField(simDevices[deviceIdent], name, direction, defaultValue)
              IN /\ simDevices' = [simDevices EXCEPT ![deviceIdent] = done.device]
                 /\ lastReturn' = Return("registerField", deviceIdent,
                                         <<name, direction, defaultValue>>,
                                         IF done.threw THEN Def("Duplicate SimDevice field")
                                         ELSE Undefined, <<>>)
                 /\ registry' =
                        IF done.threw THEN registry
                        ELSE [registry EXCEPT ![deviceIdent] =
                                 MapSet(@, name, [direction |-> direction,
                                                  default |-> defaultValue,
                                                  value |-> defaultValue])]
           /\ UNCHANGED restOfEngine

\* The robot calls setValue of a SimDevice, naming the field by its name
\* alone or with the prefix of some direction.
SetValueOn(addresses, names, prefixes) ==
    \E address \in addresses, name \in names, prefix \in prefixes,
       value \in SimValues :
        LET deviceIdent == DeviceIdent(address[1], address[2])
            key == fieldWithDirectionPrefix(name, prefix)
        IN /\ deviceIdent \in DOMAIN simDevices
           /\ LET done == setValue(simDevices[deviceIdent], key, value)
              IN /\ simDevices' = [simDevices EXCEPT ![deviceIdent] = done.device]
                 /\ lastReturn' = Return("setValue", deviceIdent, <<key, value>>,
                                         Undefined, done.calls)
           /\ registry' = [registry EXCEPT ![deviceIdent] = RegistryAfterSet(@, name, value)]
           /\ UNCHANGED restOfEngine

\* The robot calls getValue of a SimDevice.
GetValueOn(addresses, names) ==
    \E address \in addresses, name \in names, prefix \in FieldDirection :
        LET deviceIdent == DeviceIdent(address[1], address[2])
            key == fieldWithDirectionPrefix(name, prefix)
        IN /\ deviceIdent \in DOMAIN simDevices
           /\ lastReturn' = Return("getValue", deviceIdent, <<key>>,
                                   getValue(simDevices[deviceIdent], key), <<>>)
           /\ UNCHANGED <<restOfEngine, simDevices, registry>>

\* The robot calls getFieldsAsIdents of a SimDevice.
GetFieldsAsIdentsOn(addresses) ==
    \E address \in addresses :
        LET deviceIdent == DeviceIdent(address[1], address[2])
        IN /\ deviceIdent \in DOMAIN simDevices
           /\ lastReturn' = Return("getFieldsAsIdents", deviceIdent, <<>>,
                                   getFieldsAsIdents(simDevices[deviceIdent]), <<>>)
           /\ UNCHANGED <<restOfEngine, simDevices, registry>>

\* A caller parses a string with fieldNameAndDirection.
ParseIdent ==
    \E str \in IdentStrings :
        /\ lastReturn' = Return("fieldNameAndDirection", <<>>, <<str>>,
                                fieldNameAndDirection(str), <<>>)
        /\ UNCHANGED <<restOfEngine, simDevices, registry>>

\* A caller builds the identifier of a field and parses it.
ParseBuiltIdent ==
    \E name \in IdentStrings, direction \in FieldDirection :
        /\ lastReturn' = Return("fieldWithDirectionPrefix", <<>>, <<name, direction>>,
                                fieldNameAndDirection(fieldWithDirectionPrefix(name, direction)),
                                <<>>)
        /\ UNCHANGED <<restOfEngine, simDevices, registry>>

\* The entries of a SimDevice message, in the order of the message: a field
\* name, the direction whose prefix the key carries (UNK for none), and the
\* value.  The payload has the prefixed key and the value of each entry.
SimEntries(names, prefixes) ==
    {<<>>} \cup {<< <<name, prefix, value>> >> :
                    name \in names, prefix \in prefixes, value \in SimValues}
SimPayload(entries) ==
    [i \in DOMAIN entries |->
        <<fieldWithDirectionPrefix(entries[i][1], entries[i][2]), entries[i][3]>>]

RECURSIVE RegistryAfterEntries(_, _)
RegistryAfterEntries(reg, entries) ==
    IF entries = <<>> THEN reg
    ELSE RegistryAfterEntries(RegistryAfterSet(reg, Head(entries)[1], Head(entries)[3]),
                              Tail(entries))

\* The entries of a message that names two fields, in either order.
SimEntryPairs(names, prefixes) ==
    {<< <<first, prefix, value>>, <<second, prefix, other>> >> :
        first \in names, second \in names, prefix \in prefixes,
        value \in SimValues, other \in SimValues} \ 
    {<< <<name, prefix, value>>, <<name, prefix, other>> >> :
        name \in names, prefix \in prefixes, value \in SimValues, other \in SimValues}

\* The transport emits "simDeviceEvent", with one of the given payloads.
SimDeviceDelivery(addresses, payloads) ==
    \E address \in addresses, entries \in payloads :
        LET deviceIdent == DeviceIdent(address[1], address[2])
        IN /\ HandleSimDeviceEvent(address[1], address[2], SimPayload(entries))
           /\ Delivered(Event("simDevice", NullChannel, address, SimPayload(entries)))
           /\ registry' = IF deviceIdent \in DOMAIN registry
                          THEN [registry EXCEPT ![deviceIdent] = RegistryAfterEntries(@, entries)]
                          ELSE registry
           /\ UNCHANGED <<tableVars, dsVars, accelRange, gyroRange, initSeen, commanded>>
           /\ UNCHANGED <<simDeviceFields, lastReturn, tickValues, watchdogVars>>

SimDeviceEventOn(addresses, names, prefixes) ==
    SimDeviceDelivery(addresses, SimEntries(names, prefixes))

\* startP, the connection and the timer: what every session has.
Lifecycle ==
    \/ StartP
    \/ TransportReady
    \/ OnWsReady
    \/ ReadyPResolved
    \/ HookupEvents
    \/ StartPResolved
    \/ UnheardOpen
    \/ UnheardClose
    \/ OpenConnection
    \/ CloseConnection
    \/ TimerFires

PWMEvent == PWMEventOn(Channels, PWMPayloads)
DriverStationEvent == DriverStationEventOn(DriverStationPayloads)
DioEvent == DioEventOn(Channels, DIOPayloads)
AnalogInEvent == AnalogInEventOn(Channels, AIPayloads)
AnalogOutEvent == AnalogOutEventOn(Channels, AOPayloads)
EncoderEvent == EncoderEventOn(Channels, EncoderPayloads)

\* The engine with a peer that sends every category of message.
Next ==
    \/ Lifecycle
    \/ DriverStationEvent
    \/ PWMEvent
    \/ DioEvent
    \/ AnalogInEvent
    \/ AnalogOutEvent
    \/ EncoderEvent
    \/ AccelEvent
    \/ GyroEvent

Spec == Init /\ [][Next]_vars

\* The engine with a peer whose robot program drives PWM outputs only; a
\* PWM message that carries a raw value carries no speed and no position.
PWMCommandPayloads ==
    {p \in PWMPayloads : p.raw # Undefined => (p.speed = Undefined /\ p.position = Undefined)}

NextPWM == Lifecycle \/ DriverStationEvent \/ PWMEventOn(Channels, PWMCommandPayloads)

SpecPWM == Init /\ [][NextPWM]_vars

\* The engine with a peer whose robot program uses digital channels only,
\* and drives its outputs high.
DIOHighPayloads == {p \in DIOPayloads : p.value # Def(FALSE)}

NextDIO == Lifecycle \/ DioEventOn(Channels, DIOHighPayloads)

SpecDIO == Init /\ [][NextDIO]_vars

\* The engine with a peer whose robot program uses one channel of every
\* category, and sends the init message and one kind of command for each;
\* the init message of an encoder names its two pins.
MixedChannels == {MaxChannel}
MixedPWMPayloads == {p \in PWMPayloads : p.position = Undefined /\ p.raw = Undefined}
MixedDIOPayloads == {p \in DIOHighPayloads : p.input # Def(TRUE)}
MixedEncoderPayloads ==
    {p \in EncoderPayloads : /\ p.reverse_direction = Undefined
                              /\ (p.channel_a # Undefined <=> p.init)
                              /\ (p.channel_b # Undefined <=> p.init)}
NextChannels ==
    \/ Lifecycle
    \/ PWMEventOn(MixedChannels, MixedPWMPayloads)
    \/ DioEventOn(MixedChannels, MixedDIOPayloads)
    \/ AnalogInEventOn(MixedChannels, AIPayloads)
    \/ AnalogOutEventOn(MixedChannels, AOPayloads)
    \/ EncoderEventOn(MixedChannels, MixedEncoderPayloads)

SpecChannels == Init /\ [][NextChannels]_vars

\* The engine with a peer whose robot program has motors with encoders, and
\* a driver station that stays disabled.
NextDrive ==
    \/ Lifecycle
    \/ PWMEventOn(Channels, MixedPWMPayloads)
    \/ EncoderEventOn(Channels, MixedEncoderPayloads)

SpecDrive == Init /\ [][NextDrive]_vars

\* The engine with a peer whose robot program uses an accelerometer and a gyro.
NextDevices == Lifecycle \/ AccelEvent \/ GyroEvent

SpecDevices == Init /\ [][NextDevices]_vars

\* A SimDevice on its own: a robot that registers fields and reads and
\* writes them.
OneSimDevice == {<<"SimA", NullChannel>>}
NextSimDevice ==
    \/ ConstructSimDeviceOn(OneSimDevice, {<<>>})
    \/ RegisterFieldOn(OneSimDevice, FieldNames, SimValues)
    \/ SetValueOn(OneSimDevice, LookupNames, FieldDirection)
    \/ GetValueOn(OneSimDevice, LookupNames)
    \/ GetFieldsAsIdentsOn(OneSimDevice)

SpecSimDevice == Init /\ [][NextSimDevice]_vars

\* The engine with a robot that has two SimDevices, one with two fields and
\* one with one, and whose own code writes the fields, and a peer that sends
\* SimDevice messages whose keys carry the "<>" prefix.
OtherSimDevice == SimDeviceAddresses \ OneSimDevice
OneFieldName == {<<"x">>}
TwoFieldLayouts ==
    {<< <<<<"x">>, BIDIR, 0>>, <<<<"y">>, OUTPUT_FROM_ROBOT_CODE, 0>> >>,
     << <<<<"x">>, UNK, 0>>, <<<<"y">>, INPUT_TO_ROBOT_CODE, 0>> >>}
OneFieldLayouts == {<< <<<<"x">>, INPUT_TO_ROBOT_CODE, 1>> >>}
NextSim ==
    \/ Lifecycle
    \/ ConstructSimDeviceOn(OneSimDevice, TwoFieldLayouts)
    \/ ConstructSimDeviceOn(OtherSimDevice, OneFieldLayouts)
    \/ FieldValueChangesOn(OneSimDevice, FieldNames)
    \/ FieldValueChangesOn(OtherSimDevice, OneFieldName)
    \/ SimDeviceEventOn(OneSimDevice, FieldNames, {BIDIR})
    \/ SimDeviceEventOn(OtherSimDevice, OneFieldName, {BIDIR})

SpecSim == Init /\ [][NextSim]_vars

\* The engine with a watchdog of the driver-station packets, and a peer whose
\* driver station sends packets, steadily or with gaps.
NextWatchdog ==
    \/ Lifecycle
    \/ DriverStationPacketOn(DriverStationPayloads)
    \/ PacketTimeout

SpecWatchdog == Init /\ [][NextWatchdog]_vars

\* The engine with a peer whose robot program has encoders, and sends their
\* init messages with or without the indices of the two pins.
EncoderInitPayloads ==
    {p \in EncoderPayloads : ~p.reset /\ p.reverse_direction = Undefined}
NextEncoder == Lifecycle \/ EncoderEventOn(Channels, EncoderInitPayloads)

SpecEncoder == Init /\ [][NextEncoder]_vars

\* The engine with a peer whose robot program uses the first and the last
\* digital channel, as inputs or as outputs.
EdgeChannels == {0, MaxChannel}
NextInputs == Lifecycle \/ DioEventOn(EdgeChannels, DIOHighPayloads)

SpecInputs == Init /\ [][NextInputs]_vars

\* The engine on a robot whose battery gauge may also return a percentage
\* below zero, with a peer whose robot program uses digital channels.
GaugePercentages == {-1, 0, 1}
NextBattery ==
    \/ Lifecycle
    \/ TimerFiresOn(GaugePercentages, AccelReadings, GyroReadings)
    \/ DioEventOn(MixedChannels, MixedDIOPayloads)

SpecBattery == Init /\ [][NextBattery]_vars

\* The engine on a robot whose accelerometer moves along two axes, with a
\* peer whose robot program uses the accelerometer.
AxisAccelReadings == [accelX : {0, 1}, accelY : {0, 1}, accelZ : {0}]
NextAccel ==
    \/ Lifecycle
    \/ TimerFiresOn(BatteryPercentages, AxisAccelReadings, GyroReadings)
    \/ AccelEvent

SpecAccel == Init /\ [][NextAccel]_vars

\* The engine with a robot that has one SimDevice of two fields, and a peer
\* that sends messages of one or two keys to it and to a device that the
\* robot does not have.
NextSimPeer ==
    \/ Lifecycle
    \/ ConstructSimDeviceOn(OneSimDevice, TwoFieldLayouts)
    \/ SimDeviceEventOn(SimDeviceAddresses, FieldNames, {BIDIR})
    \/ SimDeviceDelivery(SimDeviceAddresses, SimEntryPairs(FieldNames, {BIDIR}))

SpecSimPeer == Init /\ [][NextSimPeer]_vars

\* The engine with a peer whose driver station enables the robot and whose
\* robot program uses a motor, a digital channel and an encoder on the last
\* channel, and sends their init messages more than once.
EnablingPayloads ==
    {p \in DriverStationPayloads :
        p.enabled = Def(TRUE) /\ p.autonomous = Undefined /\ p.test = Undefined}
NextReinit ==
    \/ Lifecycle
    \/ DriverStationEventOn(EnablingPayloads)
    \/ PWMEventOn(MixedChannels, MixedPWMPayloads)
    \/ DioEventOn(MixedChannels, DIOHighPayloads)
    \/ EncoderEventOn(MixedChannels, EncoderInitPayloads)

SpecReinit == Init /\ [][NextReinit]_vars

\* A SimDevice on its own whose robot registers a field under the name "x"
\* and one under the name "<x", and reads and writes them by these names.
PrefixedFieldNames == {<<"x">>, <<"<", "x">>}
NextPrefixedFields ==
    \/ ConstructSimDeviceOn(OneSimDevice, {<<>>})
    \/ RegisterFieldOn(OneSimDevice, PrefixedFieldNames, SimValues)
    \/ SetValueOn(OneSimDevice, PrefixedFieldNames, {UNK})
    \/ GetValueOn(OneSimDevice, PrefixedFieldNames)

SpecPrefixedFields == Init /\ [][NextPrefixedFields]_vars

\* The engine with a robot that has a SimDevice of one field, whose code
\* writes the field, and a peer whose driver station enables the robot and
\* that disconnects and connects again.
NextReconnect ==
    \/ Lifecycle
    \/ ConstructSimDeviceOn(OtherSimDevice, OneFieldLayouts)
    \/ FieldValueChangesOn(OtherSimDevice, OneFieldName)
    \/ DriverStationEventOn(EnablingPayloads)

SpecReconnect == Init /\ [][NextReconnect]_vars

\* ------------------------------------------- the robot's SimDevice Map
\* The identifier strings of _simDevices, as the later revision of the base
\* class builds them: "name" is <<name>>, "name[n]" is <<name, n>> and
\* "name[n,m]" is <<name, n, m>>.
\* new SimDevice(name, index, channel); null is NullChannel.
SimDeviceIndices == {NullChannel, 0, 1}
SimDeviceChannels == {NullChannel, 0, 1}
SimDeviceOf(name, index, channel) ==
    [name |-> name, index |-> index, channel |-> channel,
     fieldNameToIdent |-> EmptyMap, fields |-> EmptyMap]

\* registerSimDevice: the _simDevices Map it leaves.
registerSimDevice(devices, device) ==
    LET deviceIdent ==
            IF device.index # NullChannel
            THEN IF device.channel # NullChannel
                 THEN <<device.name, device.index, device.channel>>
                 ELSE <<device.name, device.index>>
            ELSE <<device.name>>
    IN MapSet(devices, deviceIdent, device)

\* getSimDevice: Undefined, or the device.
getSimDevice(devices, deviceName, deviceChannel) ==
    LET deviceIdent == IF deviceChannel # NullChannel
                       THEN <<deviceName, deviceChannel>>
                       ELSE <<deviceName>>
    IN IF deviceIdent \in DOMAIN devices THEN Def(devices[deviceIdent]) ELSE Undefined

\* The constructor of a robot registers a SimDevice.
RegisterSimDeviceOn(names, indices, channels) ==
    \E name \in names, index \in indices, channel \in channels :
        LET device == SimDeviceOf(name, index, channel)
        IN /\ pc = "constructed"
           /\ simDevices' = registerSimDevice(simDevices, device)
           /\ lastReturn' = Return("registerSimDevice", <<>>, <<device>>, Undefined, <<>>)
           /\ UNCHANGED <<restOfEngine, registry>>

\* A caller asks the robot for a SimDevice.
GetSimDeviceOn(names, channels) ==
    \E name \in names, channel \in channels :
        /\ lastReturn' = Return("getSimDevice", <<>>, <<name, channel>>,
                                getSimDevice(simDevices, name, channel), <<>>)
        /\ UNCHANGED <<restOfEngine, simDevices, registry>>

\* A robot whose constructor registers SimDevices of one name, with and
\* without an index and a channel, and a caller that looks them up.
NextRegistry ==
    \/ RegisterSimDeviceOn({"SimA"}, SimDeviceIndices, SimDeviceChannels)
    \/ GetSimDeviceOn({"SimA"}, SimDeviceChannels)

SpecRegistry == Init /\ [][NextRegistry]_vars

\* The callers of the identifier functions.
NextIdent == ParseIdent \/ ParseBuiltIdent

SpecIdent == Init /\ [][NextIdent]_vars

\* ===================================================== properties
\* The payload of a PWM message carries a command.
HasCommand(payload) ==
    \/ payload.speed # Undefined
    \/ payload.position # Undefined
    \/ payload.raw # Undefined

Neutral == Def(PWM_NO_MOVEMENT)

\* C1: whenever the driver-station-enabled flag is false or the connection
\* is closed, the value last written to the hardware for every PWM channel
\* that has ever been written is the neutral value 127.5.
C1_NeutralWhileDisabledOrClosed ==
    (~driverStationEnabled \/ ~connected) =>
        \A ch \in Channels : hwPWM[ch] # Undefined => hwPWM[ch] = Neutral

\* A channel that keeps a commanded value other than neutral while the
\* driver station is disabled, and whose hardware holds neutral.
C1_PausedChannel ==
    /\ ~driverStationEnabled
    /\ \E ch \in DOMAIN pwmChannels :
           /\ pwmChannels[ch].currentValue # PWM_NO_MOVEMENT
           /\ hwPWM[ch] = Neutral

\* C2: while the driver-station-enabled flag is false, a PWM message that
\* carries a speed, position or raw value, for an initialised channel or
\* not, results in no call of setPWMValue and leaves the cached commanded
\* value of every channel as it was (a channel the message has just
\* initialised holds neutral).
C2_DisabledIgnoresPWM ==
    [][ (/\ lastEvent'.type = "pwm"
         /\ HasCommand(lastEvent'.payload)
         /\ ~driverStationEnabled)
        => /\ lastCalls' = <<>>
           /\ hwPWM' = hwPWM
           /\ \A ch \in DOMAIN pwmChannels' :
                  pwmChannels'[ch].currentValue =
                      IF ch \in DOMAIN pwmChannels
                      THEN pwmChannels[ch].currentValue
                      ELSE PWM_NO_MOVEMENT ]_vars

\* A command for another value has arrived for a channel that keeps a
\* commanded value while the driver station is disabled.
C2_CommandWhileDisabled ==
    /\ lastEvent.type = "pwm"
    /\ ~driverStationEnabled
    /\ pwmValueOf(lastEvent.payload) # Undefined
    /\ lastEvent.channel \in DOMAIN pwmChannels
    /\ pwmChannels[lastEvent.channel].currentValue # PWM_NO_MOVEMENT
    /\ pwmChannels[lastEvent.channel].currentValue # Val(pwmValueOf(lastEvent.payload))
    /\ hwPWM[lastEvent.channel] = Neutral

\* C3: if the last command accepted for an initialised PWM channel is v, a
\* driver-station message with enabled=false writes neutral to the channel,
\* and the next driver-station message with enabled=true writes v back to
\* it, when no disconnection and no change of the autonomous or test mode
\* has come in between.
C3_DisableThenEnableRestores ==
    [][ (/\ lastEvent'.type = "driverStation"
         /\ ~ModeFieldDiffers(dsMode, lastEvent'.payload))
        => \A ch \in DOMAIN pwmChannels :
              /\ lastEvent'.payload.enabled = Def(FALSE) => hwPWM'[ch] = Neutral
              /\ (/\ lastEvent'.payload.enabled = Def(TRUE)
                  /\ ~driverStationEnabled
                  /\ commanded[ch] # Undefined)
                 => hwPWM'[ch] = commanded[ch] ]_vars

\* C4: a driver-station message whose autonomous or test field differs from
\* the stored value writes neutral to every PWM channel in the table and
\* sets the cached value of every one of them to neutral.
C4_ModeChangeStopsPWMs ==
    [][ (/\ lastEvent'.type = "driverStation"
         /\ ModeFieldDiffers(dsMode, lastEvent'.payload))
        => \A ch \in DOMAIN pwmChannels :
              /\ hwPWM'[ch] = Neutral
              /\ pwmChannels'[ch].currentValue = PWM_NO_MOVEMENT ]_vars

\* The categories of message that address a channel, and the table of each.
ChannelEventTypes == {"dio", "analogIn", "analogOut", "pwm", "encoder"}

ChannelTable(type) ==
    CASE type = "dio" -> dioChannels
      [] type = "analogIn" -> ainChannels
      [] type = "analogOut" -> aoutChannels
      [] type = "pwm" -> pwmChannels
      [] type = "encoder" -> encoderChannels

\* The robot has been called with exactly this call.
Called(calls, call) ==
    \E i \in DOMAIN calls : calls[i][1] = call[1] /\ calls[i] = call

\* C5: for every channel category (DIO, analog-in, analog-out, PWM,
\* encoder), a message that is not an init message and addresses an index
\* with no table entry causes no hardware call and changes no state of the
\* engine at all.
C5_UninitialisedIgnored ==
    [][ (/\ lastEvent'.type \in ChannelEventTypes
         /\ ~lastEvent'.payload.init
         /\ lastEvent'.channel \notin DOMAIN ChannelTable(lastEvent'.type))
        => /\ lastCalls' = <<>>
           /\ UNCHANGED <<tableVars, dsVars, robotVars>> ]_vars

\* C5, amended: such a message causes no hardware call and changes no
\* table, no driver-station state and no state of the robot; the one thing
\* it changes is the buffer of pending DIO fields, where a DIO message
\* leaves an entry for the channel that holds the direction and the value
\* it carries over the ones saved before.
C5_UninitialisedOnlyBuffered ==
    [][ (/\ lastEvent'.type \in ChannelEventTypes
         /\ ~lastEvent'.payload.init
         /\ lastEvent'.channel \notin DOMAIN ChannelTable(lastEvent'.type))
        => /\ lastCalls' = <<>>
           /\ UNCHANGED <<dioChannels, ainChannels, aoutChannels, pwmChannels,
                          encoderChannels, accelDevices, gyroDevices,
                          dsVars, robotVars>>
           /\ lastEvent'.type # "dio" => UNCHANGED pendingDioEvents
           /\ lastEvent'.type = "dio" =>
                  LET ch == lastEvent'.channel
                      payload == lastEvent'.payload
                      saved == IF ch \in DOMAIN pendingDioEvents
                               THEN pendingDioEvents[ch]
                               ELSE NoPendingFields
                  IN /\ DOMAIN pendingDioEvents' = DOMAIN pendingDioEvents \cup {ch}
                     /\ \A other \in DOMAIN pendingDioEvents \ {ch} :
                            pendingDioEvents'[other] = pendingDioEvents[other]
                     /\ pendingDioEvents'[ch].input =
                            IF payload.input # Undefined THEN payload.input ELSE saved.input
                     /\ pendingDioEvents'[ch].value =
                            IF payload.value # Undefined THEN payload.value ELSE saved.value ]_vars

\* A DIO message for a channel that is not in the table has left its value
\* in the buffer, next to a direction that an earlier message left there.
C5_ValueBuffered ==
    /\ lastEvent.type = "dio"
    /\ ~lastEvent.payload.init
    /\ lastEvent.payload.input = Undefined
    /\ lastEvent.payload.value = Def(TRUE)
    /\ lastEvent.channel \notin DOMAIN dioChannels
    /\ lastEvent.channel \in DOMAIN pendingDioEvents
    /\ pendingDioEvents[lastEvent.channel] = [input |-> Def(FALSE), value |-> Def(TRUE)]

\* C6: for an initialised DIO channel, a message with a value field calls
\* setDIOValue with that value, and updates the cached value, if and only if
\* the mode of the channel is OUTPUT once the direction the same message
\* brings has been applied; in mode INPUT or UNCONFIGURED the value is
\* ignored.
C6_ValueOnlyForOutput ==
    [][ (/\ lastEvent'.type = "dio"
         /\ lastEvent'.payload.value # Undefined
         /\ lastEvent'.channel \in DOMAIN dioChannels')
        => LET ch == lastEvent'.channel
               v == Val(lastEvent'.payload.value)
               before == IF ch \in DOMAIN dioChannels THEN dioChannels[ch].value ELSE FALSE
               after == dioChannels'[ch]
           IN /\ Called(lastCalls', <<"setDIOValue", ch, v>>) <=> after.mode = OUTPUT
              /\ after.value = IF after.mode = OUTPUT THEN v ELSE before ]_vars

\* A message that switches an initialised channel to INPUT and carries a
\* value other than the cached one: the value has been ignored.
C6_ValueIgnoredForInput ==
    /\ lastEvent.type = "dio"
    /\ ~lastEvent.payload.init
    /\ lastEvent.payload.input = Def(TRUE)
    /\ lastEvent.payload.value = Def(TRUE)
    /\ lastEvent.channel \in DOMAIN dioChannels
    /\ dioChannels[lastEvent.channel].mode = INPUT
    /\ dioChannels[lastEvent.channel].value = FALSE
    /\ lastCalls = << <<"setDigitalChannelMode", lastEvent.channel, INPUT>> >>

\* C7: right after the connection has closed, every channel of every
\* category is absent from its table, and a message that is not an init
\* message for a channel that is absent, initialised before the close or
\* never, makes no call and puts nothing into a table.
C7_ClosedMeansUninitialised ==
    [][ /\ (lastEvent'.type = "close" /\ connected)
            => \A type \in ChannelEventTypes : DOMAIN ChannelTable(type)' = {}
        /\ (/\ lastEvent'.type \in ChannelEventTypes
            /\ ~lastEvent'.payload.init
            /\ lastEvent'.channel \notin DOMAIN ChannelTable(lastEvent'.type))
           => /\ lastCalls' = <<>>
              /\ UNCHANGED <<dioChannels, ainChannels, aoutChannels,
                             pwmChannels, encoderChannels, robotVars>> ]_vars

\* A PWM command has arrived for a channel that was in the table when the
\* connection closed (the close wrote neutral for it) and is absent now.
C7_CommandAfterClose ==
    /\ lastEvent.type = "pwm"
    /\ ~lastEvent.payload.init
    /\ HasCommand(lastEvent.payload)
    /\ connected
    /\ lastEvent.channel \notin DOMAIN pwmChannels
    /\ hwPWM[lastEvent.channel] = Neutral

\* C8: for every table (DIO, analog-in, analog-out, PWM, encoder,
\* accelerometer, gyro) an entry exists if and only if an init message for
\* it has been received since the last close or the start of the process.
C8_EntryIffInitSeen ==
    /\ DOMAIN dioChannels = initSeen.dio
    /\ DOMAIN ainChannels = initSeen.ain
    /\ DOMAIN aoutChannels = initSeen.aout
    /\ DOMAIN pwmChannels = initSeen.pwm
    /\ DOMAIN encoderChannels = initSeen.encoder
    /\ DOMAIN accelDevices = initSeen.accel
    /\ DOMAIN gyroDevices = initSeen.gyro

\* C9: when the connection closes, neutral is written for every PWM channel
\* that is in the table and resetEncoder is called for every encoder
\* channel that is in the table, the tables are empty afterwards, and the
\* disconnection hook is called exactly once, as the last call.
C9_CloseStopsThenClears ==
    [][ (lastEvent'.type = "close" /\ connected)
        => /\ \A ch \in DOMAIN pwmChannels :
                  /\ Called(lastCalls', <<"setPWMValue", ch, PWM_NO_MOVEMENT>>)
                  /\ hwPWM'[ch] = Neutral
           /\ \A ch \in DOMAIN encoderChannels :
                  Called(lastCalls', <<"resetEncoder", ch>>)
           /\ Cardinality({i \in DOMAIN lastCalls' :
                               lastCalls'[i][1] = "onWSDisconnection"}) = 1
           /\ lastCalls'[Len(lastCalls')] = <<"onWSDisconnection">>
           /\ \A type \in ChannelEventTypes : DOMAIN ChannelTable(type)' = {} ]_vars

\* The connection has closed with every PWM channel and every encoder
\* channel in its table.
C9_ClosedWithEveryChannel ==
    /\ lastEvent.type = "close"
    /\ Len(lastCalls) = 2 * Cardinality(Channels) + 1
    /\ \A ch \in Channels : hwPWM[ch] = Neutral

\* C10: after startP, no handler of an inbound message runs and the polling
\* timer does not fire before the transport has become ready and then the
\* promise of readyP has resolved, in that order; the promise of startP
\* resolves only after the handlers and the timer have been attached.
C10_StartOrder ==
    /\ robotReady => wsReady
    /\ (hooked \/ readTimer) => (wsReady /\ robotReady)
    /\ (lastEvent # NoEvent \/ lastCalls # <<>>) => (hooked /\ readTimer)
    /\ startResolved => (hooked /\ readTimer)

\* The promise of startP has resolved and the polling timer has fired.
C10_StartedAndPolling ==
    /\ startResolved
    /\ lastEvent.type = "tick"
    /\ lastCalls # <<>>

\* C16: fieldNameAndDirection maps a string that begins with "<>" to the rest
\* and BIDIR, one that begins with "<" but not "<>" to the rest and
\* OUTPUT_FROM_ROBOT_CODE, one that begins with ">" to the rest and
\* INPUT_TO_ROBOT_CODE, and any other string to itself and UNK; and parsing
\* the identifier built from a name and a direction gives the name and the
\* direction back, for every name that begins with neither "<" nor ">".
Drop(str, n) == [i \in 1..(Len(str) - n) |-> str[i + n]]
BeginsWith(str, char) == Len(str) >= 1 /\ str[1] = char
C16_ParseAndRoundTrip ==
    /\ lastReturn.method = "fieldNameAndDirection" =>
           LET str == lastReturn.args[1]
               bidir == BeginsWith(str, "<") /\ Len(str) >= 2 /\ str[2] = ">"
           IN /\ bidir => lastReturn.result = [field |-> Drop(str, 2), direction |-> BIDIR]
              /\ BeginsWith(str, "<") /\ ~bidir =>
                     lastReturn.result =
                         [field |-> Drop(str, 1), direction |-> OUTPUT_FROM_ROBOT_CODE]
              /\ BeginsWith(str, ">") =>
                     lastReturn.result =
                         [field |-> Drop(str, 1), direction |-> INPUT_TO_ROBOT_CODE]
              /\ ~BeginsWith(str, "<") /\ ~BeginsWith(str, ">") =>
                     lastReturn.result = [field |-> str, direction |-> UNK]
    /\ lastReturn.method = "fieldWithDirectionPrefix" =>
           LET name == lastReturn.args[1]
           IN ~BeginsWith(name, "<") /\ ~BeginsWith(name, ">") =>
                  lastReturn.result = [field |-> name, direction |-> lastReturn.args[2]]

\* A bidirectional identifier whose name holds a "<" further on was built
\* and parsed back.
C16_BidirRoundTrip ==
    /\ lastReturn.method = "fieldWithDirectionPrefix"
    /\ lastReturn.args = << <<"x", "<">>, BIDIR >>
    /\ lastReturn.result = [field |-> <<"x", "<">>, direction |-> BIDIR]

\* C14: getValue of a registered field, named by its bare name or by a
\* prefixed identifier, returns the value that the last setValue of the field
\* gave it, whichever of the two forms that setValue named it by, and the
\* default of its registration when there was no setValue.
IdentForms(name) == {fieldWithDirectionPrefix(name, prefix) : prefix \in FieldDirection}
C14_GetReturnsLastSet ==
    lastReturn.method = "getValue" =>
        \A name \in DOMAIN registry[lastReturn.device] :
            lastReturn.args[1] \in IdentForms(name) =>
                lastReturn.result = Def(registry[lastReturn.device][name].value)

\* The bare name of a bidirectional field was read after a setValue had given
\* the field a value other than its default.
C14_BareNameReadAfterSet ==
    /\ lastReturn.method = "getValue"
    /\ lastReturn.args = << <<"x">> >>
    /\ <<"x">> \in DOMAIN registry[lastReturn.device]
    /\ registry[lastReturn.device][<<"x">>].direction = BIDIR
    /\ registry[lastReturn.device][<<"x">>].value # registry[lastReturn.device][<<"x">>].default
    /\ lastReturn.result = Def(registry[lastReturn.device][<<"x">>].value)

\* C15: registerField with a name that is already registered fails with the
\* duplicate-field error, whatever the direction, and leaves the identifiers
\* and the values of the device as they were; with a new name it adds exactly
\* one identifier, the prefix of the direction followed by the name, holding
\* the default value.
C15_RegisterField ==
    [][(lastReturn' # lastReturn /\ lastReturn'.method = "registerField") =>
          LET deviceIdent == lastReturn'.device
              name == lastReturn'.args[1]
              fieldIdent == dirPrefix(lastReturn'.args[2]) \o name
              before == simDevices[deviceIdent].fields
              after == simDevices'[deviceIdent].fields
          IN IF name \in DOMAIN registry[deviceIdent]
             THEN /\ lastReturn'.result = Def("Duplicate SimDevice field")
                  /\ getFieldsAsIdents(simDevices'[deviceIdent])
                        = getFieldsAsIdents(simDevices[deviceIdent])
                  /\ after = before
             ELSE /\ lastReturn'.result = Undefined
                  /\ fieldIdent \notin getFieldsAsIdents(simDevices[deviceIdent])
                  /\ getFieldsAsIdents(simDevices'[deviceIdent])
                        = getFieldsAsIdents(simDevices[deviceIdent]) \cup {fieldIdent}
                  /\ after[fieldIdent] = lastReturn'.args[3]
                  /\ \A ident \in DOMAIN before : after[ident] = before[ident]]_vars

\* A registered name was registered again with another direction and another
\* default, and the call failed.
C15_DuplicateOtherDirection ==
    /\ lastReturn.method = "registerField"
    /\ lastReturn.result = Def("Duplicate SimDevice field")
    /\ registry[lastReturn.device][lastReturn.args[1]].direction # lastReturn.args[2]
    /\ registry[lastReturn.device][lastReturn.args[1]].value # lastReturn.args[3]

\* C17: after any sequence of successful registerField calls and setValue
\* calls, getFieldsAsIdents returns exactly one prefixed identifier for each
\* registered field name, built from the direction the name was registered
\* with.
RegisteredIdents(deviceIdent) ==
    {dirPrefix(registry[deviceIdent][name].direction) \o name :
        name \in DOMAIN registry[deviceIdent]}
C17_OneIdentPerField ==
    /\ \A deviceIdent \in DOMAIN simDevices :
           /\ getFieldsAsIdents(simDevices[deviceIdent]) = RegisteredIdents(deviceIdent)
           /\ Cardinality(getFieldsAsIdents(simDevices[deviceIdent]))
                 = Cardinality(DOMAIN registry[deviceIdent])
    /\ lastReturn.method = "getFieldsAsIdents" =>
           lastReturn.result = RegisteredIdents(lastReturn.device)

\* getFieldsAsIdents returned the identifiers of two fields of different
\* directions, one of them written by setValue since its registration.
C17_TwoFieldsListed ==
    /\ lastReturn.method = "getFieldsAsIdents"
    /\ DOMAIN registry[lastReturn.device] = FieldNames
    /\ registry[lastReturn.device][<<"x">>].direction = INPUT_TO_ROBOT_CODE
    /\ registry[lastReturn.device][<<"y">>].direction = OUTPUT_FROM_ROBOT_CODE
    /\ registry[lastReturn.device][<<"y">>].value # registry[lastReturn.device][<<"y">>].default
    /\ lastReturn.result = {<<">", "x">>, <<"<", "y">>}

\* C18: getValue of a name or identifier that resolves to no registered field
\* returns undefined; setValue of such a name or identifier changes no stored
\* value, adds no field and does not call _onSetValue.
NamesNoField(deviceIdent, key) ==
    \A name \in DOMAIN registry[deviceIdent] : key \notin IdentForms(name)
C18_UnknownFieldIgnored ==
    [][/\ (/\ lastReturn' # lastReturn
           /\ lastReturn'.method = "getValue"
           /\ NamesNoField(lastReturn'.device, lastReturn'.args[1]))
          => lastReturn'.result = Undefined
       /\ (/\ lastReturn' # lastReturn
           /\ lastReturn'.method = "setValue"
           /\ NamesNoField(lastReturn'.device, lastReturn'.args[1]))
          => /\ simDevices' = simDevices
             /\ lastReturn'.calls = <<>>]_vars

\* setValue named a field that is not registered, by a prefixed identifier,
\* on a device that has other fields.
C18_UnknownFieldSet ==
    /\ lastReturn.method = "setValue"
    /\ lastReturn.args[1] = <<"<", ">", "z">>
    /\ DOMAIN registry[lastReturn.device] = FieldNames
    /\ lastReturn.calls = <<>>

\* C19: once a field is registered, its prefixed identifier never changes:
\* not under a setValue that names it by its bare name or with the prefix of
\* another direction, and not under further registerField calls.
C19_IdentStable ==
    [][\A deviceIdent \in DOMAIN simDevices :
          \A name \in DOMAIN simDevices[deviceIdent].fieldNameToIdent :
              /\ name \in DOMAIN simDevices'[deviceIdent].fieldNameToIdent
              /\ simDevices'[deviceIdent].fieldNameToIdent[name]
                    = simDevices[deviceIdent].fieldNameToIdent[name]
              /\ simDevices[deviceIdent].fieldNameToIdent[name]
                    \in getFieldsAsIdents(simDevices'[deviceIdent])]_vars

\* setValue named an input field with the prefix of the output direction and
\* gave it a new value; the field still has its input identifier.
C19_SetWithOtherPrefix ==
    /\ lastReturn.method = "setValue"
    /\ lastReturn.args[1] = <<"<", "x">>
    /\ lastReturn.calls # <<>>
    /\ registry[lastReturn.device][<<"x">>].value # registry[lastReturn.device][<<"x">>].default
    /\ simDevices[lastReturn.device].fieldNameToIdent[<<"x">>] = <<">", "x">>

\* The simulated-device messages a handler sent for a device.
SimDeviceUpdates(sent, deviceIdent) ==
    {i \in DOMAIN sent : /\ sent[i][1] = "simDeviceUpdateToWpilib"
                          /\ sent[i][2] = deviceIdent}

\* C11: when no field of any registered SimDevice has another value than at
\* the polling tick before, a polling tick sends no simulated-device message.
C11_UnchangedValuesSendNothing ==
    [][(TimerFires /\ tickValues = FieldValues) =>
          \A deviceIdent \in DOMAIN simDevices :
              SimDeviceUpdates(lastSent', deviceIdent) = {}]_vars

\* A polling tick sent no simulated-device message although the first device
\* has a bidirectional field, whose value is not its default.
C11_SilentTick ==
    /\ lastEvent.type = "tick"
    /\ DeviceIdent("SimA", NullChannel) \in DOMAIN simDevices
    /\ \A deviceIdent \in DOMAIN simDevices : SimDeviceUpdates(lastSent, deviceIdent) = {}
    /\ registry[DeviceIdent("SimA", NullChannel)][<<"x">>].direction = BIDIR
    /\ registry[DeviceIdent("SimA", NullChannel)][<<"x">>].value = 1
    /\ tickValues = FieldValues

\* C12: a polling tick sends at most one simulated-device message for each
\* registered SimDevice; its keys are exactly the identifiers of the
\* bidirectional and input-to-code fields that the tick sees for the first
\* time or whose value differs from the cached one, each with the value of
\* the field; fields of the output direction or of no direction are never
\* among them; and no message is sent when there is no such field.
RegisteredIdent(deviceIdent, name) ==
    dirPrefix(registry[deviceIdent][name].direction) \o name
StagedNames(deviceIdent) ==
    {name \in DOMAIN registry[deviceIdent] :
        /\ registry[deviceIdent][name].direction \in {BIDIR, INPUT_TO_ROBOT_CODE}
        /\ \/ deviceIdent \notin DOMAIN simDeviceFields
           \/ RegisteredIdent(deviceIdent, name) \notin DOMAIN simDeviceFields[deviceIdent]
           \/ simDeviceFields[deviceIdent][RegisteredIdent(deviceIdent, name)]
                 # Def(registry[deviceIdent][name].value)}
C12_OneMessageOfChangedInputs ==
    [][TimerFires =>
          \A deviceIdent \in DOMAIN simDevices :
              LET updates == SimDeviceUpdates(lastSent', deviceIdent)
                  names == StagedNames(deviceIdent)
              IN /\ Cardinality(updates) = IF names = {} THEN 0 ELSE 1
                 /\ \A i \in updates :
                        /\ DOMAIN lastSent'[i][3]
                              = {RegisteredIdent(deviceIdent, name) : name \in names}
                        /\ \A name \in names :
                               lastSent'[i][3][RegisteredIdent(deviceIdent, name)]
                                 = Def(registry[deviceIdent][name].value)]_vars

\* A polling tick sent one message for each of the two devices; the message of
\* the first has the bidirectional field alone, although the tick also saw a
\* new value of the output field.
C12_OutputFieldLeftOut ==
    /\ lastEvent.type = "tick"
    /\ Cardinality(SimDeviceUpdates(lastSent, DeviceIdent("SimA", NullChannel))) = 1
    /\ Cardinality(SimDeviceUpdates(lastSent, DeviceIdent("SimB", 0))) = 1
    /\ \A i \in SimDeviceUpdates(lastSent, DeviceIdent("SimA", NullChannel)) :
           DOMAIN lastSent[i][3] = {<<"<", ">", "x">>}
    /\ simDeviceFields[DeviceIdent("SimA", NullChannel)][<<"<", "y">>] = Def(1)
    /\ tickValues = FieldValues

\* C20: every encoder update that a polling tick sends carries the count and
\* the period that getEncoderCount and getEncoderPeriod returned for the
\* channel during that tick, never the cached count and never the zero of a
\* reset.
C20_EncoderUpdateIsFresh ==
    \A i \in DOMAIN lastSent :
        lastSent[i][1] = "encoderUpdateToWpilib" =>
            /\ lastEvent.type = "tick"
            /\ Called(lastCalls, <<"getEncoderCount", lastSent[i][2], lastSent[i][3]>>)
            /\ Called(lastCalls, <<"getEncoderPeriod", lastSent[i][2], lastSent[i][4]>>)

\* A polling tick read a count other than zero from the encoder of a channel
\* and sent it.
C20_CountSent ==
    /\ lastEvent.type = "tick"
    /\ \E i \in DOMAIN lastSent :
           /\ lastSent[i][1] = "encoderUpdateToWpilib"
           /\ lastSent[i][3] # 0
           /\ encoderChannels[lastSent[i][2]].count = lastSent[i][3]

\* C13: the packet-timeout notifications alternate and start with "cleared":
\* the first driver-station packet after the start, and the first after a
\* timeout, gives onDSPacketTimeoutCleared; a timeout gives
\* onDSPacketTimeoutOccurred, and only after a "cleared"; neither is given
\* twice in a row, and a packet that follows a "cleared" gives none.
NoticeDelivered == <<prevNotice, lastNotice>>' # <<prevNotice, lastNotice>>
C13_NoticesAlternate ==
    [][/\ NoticeDelivered =>
             /\ prevNotice' = lastNotice
             /\ lastNotice' # lastNotice
             /\ lastNotice = "none" => lastNotice' = "cleared"
       /\ (\E payload \in DriverStationPayloads : DriverStationDelivery(payload)) =>
             IF lastNotice = "cleared"
             THEN ~NoticeDelivered
             ELSE NoticeDelivered /\ lastNotice' = "cleared"
       /\ lastEvent'.type = "dsPacketTimeout" /\ NoticeDelivered =>
             lastNotice' = "occurred"]_vars

\* Packets arrived, stopped and arrived again: the notification delivered
\* last is a "cleared" after an "occurred".
C13_ClearedAgain ==
    /\ lastNotice = "cleared"
    /\ prevNotice = "occurred"
    /\ lastEvent.type = "driverStation"

\* C21: the first init message of an encoder channel, carrying the indices A
\* and B of its pins, creates the entry {A, B, count 0} and calls
\* registerEncoder(channel, A, B); and an encoder entry is never created by a
\* message without the init flag, nor by an init message that lacks A or B.
C21_EntryOnlyFromInitWithPins ==
    [][/\ (/\ lastEvent'.type = "encoder"
           /\ lastEvent'.channel \notin DOMAIN encoderChannels
           /\ lastEvent'.payload.init
           /\ lastEvent'.payload.channel_a # Undefined
           /\ lastEvent'.payload.channel_b # Undefined)
          => /\ lastEvent'.channel \in DOMAIN encoderChannels'
             /\ encoderChannels'[lastEvent'.channel]
                   = [channelA |-> lastEvent'.payload.channel_a,
                      channelB |-> lastEvent'.payload.channel_b,
                      count |-> 0]
             /\ Called(lastCalls', <<"registerEncoder", lastEvent'.channel,
                                     lastEvent'.payload.channel_a,
                                     lastEvent'.payload.channel_b>>)
       /\ \A channel \in DOMAIN encoderChannels' \ DOMAIN encoderChannels :
             /\ lastEvent'.type = "encoder"
             /\ lastEvent'.channel = channel
             /\ lastEvent'.payload.init
             /\ lastEvent'.payload.channel_a # Undefined
             /\ lastEvent'.payload.channel_b # Undefined]_vars

\* C22: for an initialised encoder channel, a message with the reset flag
\* calls resetEncoder for the channel and sets the cached count to 0, and a
\* message with a reverse-direction field calls setEncoderReverseDirection
\* with its boolean.
C22_ResetAndReverseForwarded ==
    [][(/\ lastEvent'.type = "encoder"
        /\ lastEvent'.channel \in DOMAIN encoderChannels)
       => /\ lastEvent'.payload.reset =>
                /\ Called(lastCalls', <<"resetEncoder", lastEvent'.channel>>)
                /\ encoderChannels'[lastEvent'.channel].count = 0
          /\ lastEvent'.payload.reverse_direction # Undefined =>
                Called(lastCalls', <<"setEncoderReverseDirection", lastEvent'.channel,
                                    Val(lastEvent'.payload.reverse_direction)>>)]_vars

\* C23: an accepted PWM command (the channel is initialised and the driver
\* station enabled) makes exactly one setPWMValue call for the channel, with
\* mapValue(s, -1, 1, 0, 255) for a speed s, mapValue(p, 0, 1, 0, 255) for a
\* position p, and r itself for a raw value r; afterwards the cached current
\* value of the channel is the value written.
CommandFields(payload) ==
    {field \in {"speed", "position", "raw"} : payload[field] # Undefined}
CommandValue(payload) ==
    IF payload.speed # Undefined THEN mapValue(Val(payload.speed), -100, 100, 0, 25500)
    ELSE IF payload.position # Undefined
    THEN mapValue(Val(payload.position), 0, 100, 0, 25500)
    ELSE Val(payload.raw)
C23_AcceptedCommandWritten ==
    [][(/\ lastEvent'.type = "pwm"
        /\ lastEvent'.channel \in DOMAIN pwmChannels'
        /\ driverStationEnabled
        /\ Cardinality(CommandFields(lastEvent'.payload)) = 1)
       => /\ lastCalls' = << <<"setPWMValue", lastEvent'.channel,
                                CommandValue(lastEvent'.payload)>> >>
          /\ pwmChannels'[lastEvent'.channel].currentValue
                = CommandValue(lastEvent'.payload)]_vars

\* The getDIOValue calls of a tick for a channel, and the DIO updates it sends.
DioReads(calls, channel) ==
    {i \in DOMAIN calls : calls[i] = <<"getDIOValue", channel>>}
DioUpdates(sent, channel) ==
    {i \in DOMAIN sent : sent[i][1] = "dioUpdateToWpilib" /\ sent[i][2] = channel}

\* C24: on every tick the engine reads the hardware once and sends one DIO
\* update, carrying the value read, for every DIO channel in INPUT mode,
\* whether or not the value changed; for a channel in OUTPUT or UNCONFIGURED
\* mode it reads nothing, sends nothing and leaves the entry as it is.
C24_InputsReportedEveryTick ==
    [][(lastEvent'.type = "tick" /\ TimerFires) =>
        \A ch \in DOMAIN dioChannels :
            IF dioChannels[ch].mode = INPUT
            THEN /\ Cardinality(DioReads(lastCalls', ch)) = 1
                 /\ Cardinality(DioUpdates(lastSent', ch)) = 1
                 /\ \A i \in DioUpdates(lastSent', ch) :
                        lastSent'[i][3] = dioChannels'[ch].value
            ELSE /\ DioReads(lastCalls', ch) = {}
                 /\ DioUpdates(lastSent', ch) = {}
                 /\ dioChannels'[ch] = dioChannels[ch]]_vars

\* A tick with an input that still reads its initial low value and is
\* reported, next to an output that is not.
C24_UnchangedInputReported ==
    /\ lastEvent.type = "tick"
    /\ \E ch \in DOMAIN dioChannels, other \in DOMAIN dioChannels :
          /\ dioChannels[ch].mode = INPUT
          /\ ~dioChannels[ch].value
          /\ DioUpdates(lastSent, ch) # {}
          /\ dioChannels[other].mode = OUTPUT
          /\ DioUpdates(lastSent, other) = {}

\* The calls of getBatteryPercentage among the calls of a tick, and the
\* bus-voltage messages among the messages it sends.
BatteryReads(calls) == SelectSeq(calls, LAMBDA c : c[1] = "getBatteryPercentage")
BusVoltages(sent) == SelectSeq(sent, LAMBDA m : m[1] = "roboRioUpdateToWpilib")

\* C25: on every tick the engine emits one bus-voltage message, carrying
\* twelve times the percentage it reads for the message, if and only if the
\* hardware reports a battery percentage greater than zero; a zero or
\* negative percentage emits nothing.
C25_BusVoltageIffPositive ==
    [][(/\ lastEvent'.type = "tick"
        /\ TimerFiresOn(GaugePercentages, AccelReadings, GyroReadings)) =>
        LET reads == BatteryReads(lastCalls')
        IN /\ reads # <<>>
           /\ IF reads[1][2] > 0
              THEN /\ Len(reads) = 2
                   /\ BusVoltages(lastSent') =
                          << <<"roboRioUpdateToWpilib", reads[2][2] * 12>> >>
              ELSE /\ Len(reads) = 1
                   /\ BusVoltages(lastSent') = <<>>]_vars

\* A tick on a charged battery has sent twelve volts.
C25_TwelveVoltsSent ==
    /\ lastEvent.type = "tick"
    /\ BatteryReads(lastCalls) =
           << <<"getBatteryPercentage", 1>>, <<"getBatteryPercentage", 1>> >>
    /\ BusVoltages(lastSent) = << <<"roboRioUpdateToWpilib", 12>> >>

\* The messages of one kind that a tick sends for a device, and the fields
\* of a message as a set.
DeviceUpdates(sent, update, deviceIdent) ==
    SelectSeq(sent, LAMBDA m : m[1] = update /\ m[2] = deviceIdent)
FieldSet(fields) == {fields[i] : i \in DOMAIN fields}

\* What the robot's sensors held when the tick read them.
SensorReading(calls, getter) ==
    SelectSeq(calls, LAMBDA c : c[1] = getter)[1][2]

ZeroAccel == [accelX |-> 0, accelY |-> 0, accelZ |-> 0]

\* C26: for each accelerometer registered on the robot whose init message
\* has been observed, a tick emits one accel message with exactly the axes
\* whose value differs from the cached one, and then caches the values read;
\* it emits nothing when no axis differs, and nothing for an accelerometer
\* whose init message was not observed.  An entry of the cache stands for an
\* observed init message: it is created, at zero, by an init message only,
\* every init message leaves one, and it stays.
C26_ChangedAxesSentAndCached ==
    [][/\ (/\ lastEvent'.type = "tick"
           /\ TimerFiresOn(BatteryPercentages, AxisAccelReadings, GyroReadings)) =>
            \A d \in RobotAccelIdents :
                LET msgs == DeviceUpdates(lastSent', "accelUpdateToWpilib", d)
                IN IF d \in DOMAIN accelDevices
                   THEN LET reading == SensorReading(lastCalls', "getAllAccelerometers")[d]
                            changed == {axis \in DOMAIN reading :
                                           reading[axis] # accelDevices[d][axis]}
                        IN /\ accelDevices'[d] = reading
                           /\ IF changed = {} THEN msgs = <<>>
                              ELSE /\ Len(msgs) = 1
                                   /\ Len(msgs[1][3]) = Cardinality(changed)
                                   /\ FieldSet(msgs[1][3]) =
                                          {<<axis, reading[axis]>> : axis \in changed}
                   ELSE /\ msgs = <<>>
                        /\ d \notin DOMAIN accelDevices'
       /\ \A d \in DOMAIN accelDevices' \ DOMAIN accelDevices :
              /\ lastEvent'.type = "accel"
              /\ lastEvent'.payload.init
              /\ lastEvent'.device = d
              /\ accelDevices'[d] = ZeroAccel
       /\ (lastEvent'.type = "accel" /\ AccelEvent /\ lastEvent'.payload.init) =>
              lastEvent'.device \in DOMAIN accelDevices'
       /\ DOMAIN accelDevices \subseteq DOMAIN accelDevices']_vars

\* A tick has sent the y axis alone, next to an x axis that kept the value
\* of an earlier tick.
C26_OneAxisSent ==
    /\ lastEvent.type = "tick"
    /\ \E d \in RobotAccelIdents \cap DOMAIN accelDevices :
          /\ accelDevices[d].accelX = 1
          /\ DeviceUpdates(lastSent, "accelUpdateToWpilib", d) =
                 << <<"accelUpdateToWpilib", d, << <<"accelY", 1>> >> >> >>

\* C27: for each gyro registered on the robot whose init message, addressed
\* by the name and the index of the gyro, has been observed, a tick that
\* finds one of its rate or angle axes changed emits one gyro message for
\* that name and index, containing exactly the changed axes.
C27_ChangedGyroAxesSent ==
    [][(lastEvent'.type = "tick" /\ TimerFires) =>
        \A d \in RobotGyroIdents \cap DOMAIN gyroDevices :
            LET reading == SensorReading(lastCalls', "getAllGyros")[d]
                changed == {axis \in DOMAIN reading : reading[axis] # gyroDevices[d][axis]}
                msgs == DeviceUpdates(lastSent', "gyroUpdateToWpilib", d)
            IN changed # {} =>
                  /\ Len(msgs) = 1
                  /\ Len(msgs[1][3]) = Cardinality(changed)
                  /\ FieldSet(msgs[1][3]) = {<<axis, reading[axis]>> : axis \in changed}]_vars

\* The keys of a payload that name the field `name`.
KeysNaming(payload, name) ==
    {i \in DOMAIN payload : fieldNameAndDirection(payload[i][1]).field = name}

\* C28: an inbound SimDevice message for a name and channel with no
\* registered device changes no device value and no state of the engine and
\* makes no call; for a registered device every key of the payload is applied
\* through setValue: each registered field that a key names holds the value
\* of that key and its _onSetValue hook ran, and nothing else changes.
C28_MessageAppliedToRegisteredDevice ==
    [][(/\ lastEvent'.type = "simDevice"
        /\ \/ SimDeviceEventOn(SimDeviceAddresses, FieldNames, {BIDIR})
           \/ SimDeviceDelivery(SimDeviceAddresses, SimEntryPairs(FieldNames, {BIDIR})))
       => LET d == lastEvent'.device
              payload == lastEvent'.payload
          IN /\ UNCHANGED <<startVars, connected, tableVars, dsVars, robotVars,
                            simDeviceFields, watchdogVars>>
             /\ lastSent' = <<>>
             /\ IF d \notin DOMAIN simDevices
                THEN /\ simDevices' = simDevices
                     /\ lastCalls' = <<>>
                ELSE /\ DOMAIN simDevices' = DOMAIN simDevices
                     /\ \A other \in DOMAIN simDevices \ {d} :
                            simDevices'[other] = simDevices[other]
                     /\ simDevices'[d].fieldNameToIdent = simDevices[d].fieldNameToIdent
                     /\ DOMAIN simDevices'[d].fields = DOMAIN simDevices[d].fields
                     /\ \A name \in DOMAIN simDevices[d].fieldNameToIdent :
                            IF KeysNaming(payload, name) = {}
                            THEN getValue(simDevices'[d], name) = getValue(simDevices[d], name)
                            ELSE \A i \in KeysNaming(payload, name) :
                                    /\ getValue(simDevices'[d], name) = Def(payload[i][2])
                                    /\ Called(lastCalls', <<"_onSetValue", name, payload[i][2]>>)
                     /\ Len(lastCalls') = Len(payload)]_vars

\* A message of two keys has set both fields of the registered device.
C28_BothKeysApplied ==
    /\ lastEvent.type = "simDevice"
    /\ Len(lastEvent.payload) = 2
    /\ lastEvent.device \in DOMAIN simDevices
    /\ \A name \in FieldNames : getValue(simDevices[lastEvent.device], name) = Def(1)
    /\ Len(lastCalls) = 2

\* C29: after a transport close the driver-station-enabled flag is false,
\* so that after a reconnect a PWM command for a re-initialised channel is
\* not forwarded to the hardware until a new driver-station message with
\* enabled = true has arrived: a close leaves the flag false, only such a
\* message sets it, and a PWM message is forwarded under a set flag only.
C29_CloseDisables ==
    [][/\ (lastEvent'.type = "close" /\ CloseConnection) => ~driverStationEnabled'
       /\ (~driverStationEnabled /\ driverStationEnabled') =>
              /\ lastEvent'.type = "driverStation"
              /\ lastEvent'.payload.enabled = Def(TRUE)
       /\ (lastEvent'.type = "pwm" /\ lastCalls' # <<>> /\ lastEvent' # lastEvent) =>
              driverStationEnabled]_vars

\* The field of the pending buffer of a channel, Undefined when nothing is
\* buffered for the channel.
PendingField(pending, channel, field) ==
    IF channel \in DOMAIN pending THEN pending[channel][field] ELSE Undefined

\* C30: a DIO direction or value that was buffered before a transport close,
\* because its channel was never initialised, is never applied to the
\* hardware after the close: a close leaves nothing buffered, the buffer
\* takes fields from DIO messages only, and the first init message of a
\* channel applies a direction or a value only if it carries it or the
\* buffer holds it.
C30_CloseDropsBufferedFields ==
    [][/\ (lastEvent'.type = "close" /\ CloseConnection) =>
              \A ch \in Channels, field \in {"input", "value"} :
                  PendingField(pendingDioEvents', ch, field) = Undefined
       /\ \A ch \in Channels, field \in {"input", "value"} :
              (/\ PendingField(pendingDioEvents', ch, field) # Undefined
               /\ PendingField(pendingDioEvents', ch, field) #
                      PendingField(pendingDioEvents, ch, field)) =>
                 /\ lastEvent'.type = "dio"
                 /\ lastEvent'.channel = ch
                 /\ lastEvent'.payload[field] = PendingField(pendingDioEvents', ch, field)
       /\ (/\ lastEvent'.type = "dio"
           /\ lastEvent'.channel \notin DOMAIN dioChannels
           /\ lastEvent'.channel \in DOMAIN dioChannels') =>
              LET ch == lastEvent'.channel
              IN /\ (\E c \in DOMAIN lastCalls' : lastCalls'[c][1] = "setDigitalChannelMode") =>
                        \/ lastEvent'.payload.input # Undefined
                        \/ PendingField(pendingDioEvents, ch, "input") # Undefined
                 /\ (\E c \in DOMAIN lastCalls' : lastCalls'[c][1] = "setDIOValue") =>
                        \/ lastEvent'.payload.value # Undefined
                        \/ PendingField(pendingDioEvents, ch, "value") # Undefined]_vars

\* What _handleDioEvent does to the entry of an initialised channel with
\* nothing buffered: the direction, then the value if the channel is an output.
ApplyDioFields(entry, channel, payload) ==
    LET mode == IF payload.input = Undefined THEN entry.mode
                ELSE IF Val(payload.input) THEN INPUT ELSE OUTPUT
        applies == payload.value # Undefined /\ mode = OUTPUT
    IN [entry |-> [mode |-> mode,
                   value |-> IF applies THEN Val(payload.value) ELSE entry.value],
        calls |-> (IF payload.input = Undefined THEN <<>>
                   ELSE << <<"setDigitalChannelMode", channel, mode>> >>)
                  \o (IF applies THEN << <<"setDIOValue", channel, Val(payload.value)>> >>
                      ELSE <<>>)]

\* C31: for a DIO channel, the hardware calls and the resulting mode and
\* value of an init message that arrives after buffered pre-init messages are
\* those of applying the init message first and then the buffered messages in
\* their arrival order; stated for a buffer that holds the fields of one
\* pre-init message.
C31_PlaybackIsReplayInOrder ==
    [][(/\ lastEvent'.type = "dio"
        /\ lastEvent'.payload.init
        /\ lastEvent'.channel \notin DOMAIN dioChannels
        /\ lastEvent'.channel \in DOMAIN pendingDioEvents
        /\ lastEvent'.channel \in DOMAIN dioChannels')
       => LET ch == lastEvent'.channel
              buffered == [init |-> FALSE,
                           input |-> pendingDioEvents[ch].input,
                           value |-> pendingDioEvents[ch].value]
              first == ApplyDioFields([mode |-> UNCONFIGURED, value |-> FALSE], ch,
                                      lastEvent'.payload)
              second == ApplyDioFields(first.entry, ch, buffered)
          IN /\ dioChannels'[ch] = second.entry
             /\ lastCalls' = first.calls \o second.calls]_vars

\* C32: after every DIO event and every transport close, no DIO channel is
\* both in the channel table and in the buffer of pre-init fields: the
\* message that initialises a channel consumes and discards what was
\* buffered for it.
C32_BufferedOrInitialised ==
    DOMAIN dioChannels \cap DOMAIN pendingDioEvents = {}

\* An init message without a direction has played back a buffered direction
\* and emptied the buffer of its channel.
C32_PlayedBackAndDiscarded ==
    /\ lastEvent.type = "dio"
    /\ lastEvent.payload.init
    /\ lastEvent.payload.input = Undefined
    /\ lastEvent.channel \in DOMAIN dioChannels
    /\ lastEvent.channel \notin DOMAIN pendingDioEvents
    /\ lastCalls = << <<"setDigitalChannelMode", lastEvent.channel, OUTPUT>> >>

\* C33: a driver-station message that carries no enabled field and whose
\* autonomous and test fields, where present, equal the stored ones makes no
\* setPWMValue call and leaves the cached commanded value of every PWM
\* channel as it was.
C33_SameModeTouchesNoPWM ==
    [][(/\ lastEvent'.type = "driverStation"
        /\ DriverStationEvent
        /\ lastEvent'.payload.enabled = Undefined
        /\ ~ModeFieldDiffers(dsMode, lastEvent'.payload))
       => /\ \A i \in DOMAIN lastCalls' : lastCalls'[i][1] # "setPWMValue"
          /\ DOMAIN pwmChannels' = DOMAIN pwmChannels
          /\ \A ch \in DOMAIN pwmChannels :
                pwmChannels'[ch].currentValue = pwmChannels[ch].currentValue]_vars

\* C34: after a driver-station message has been handled, the stored
\* autonomous flag is the autonomous value of the most recent message that
\* carried one and the stored test flag the test value of the most recent
\* message that carried one, also when one message carries both: a field
\* that is present is stored, a field that is absent leaves the flag.
C34_ModeFollowsMessages ==
    [][(lastEvent'.type = "driverStation" /\ DriverStationEvent)
       => /\ dsMode'.autonomous = IF lastEvent'.payload.autonomous # Undefined
                                  THEN Val(lastEvent'.payload.autonomous)
                                  ELSE dsMode.autonomous
          /\ dsMode'.test = IF lastEvent'.payload.test # Undefined
                            THEN Val(lastEvent'.payload.test)
                            ELSE dsMode.test]_vars

\* C35: between two transport closes registerEncoder is called at most once
\* for an encoder channel: an init message for a channel that is already
\* initialised does not register it again.
C35_RegisteredOnce ==
    [][(/\ lastEvent'.type = "encoder"
        /\ EncoderEvent
        /\ lastEvent'.channel \in DOMAIN encoderChannels)
       => \A i \in DOMAIN lastCalls' : lastCalls'[i][1] # "registerEncoder"]_vars

\* C36: an init message for a channel that already has a table entry does
\* not reset the entry: a DIO channel keeps its mode and value, a PWM channel
\* its cached commanded value and an encoder its A/B indices and its count;
\* only the other fields of the message are applied.
C36_InitKeepsEntry ==
    [][(/\ lastEvent'.type \in {"dio", "pwm", "encoder"}
        /\ lastEvent' # lastEvent
        /\ lastEvent'.payload.init)
       => LET ch == lastEvent'.channel
              payload == lastEvent'.payload
          IN /\ (lastEvent'.type = "dio" /\ ch \in DOMAIN dioChannels) =>
                    /\ dioChannels'[ch] = ApplyDioFields(dioChannels[ch], ch, payload).entry
                    /\ lastCalls' = ApplyDioFields(dioChannels[ch], ch, payload).calls
             /\ (lastEvent'.type = "pwm" /\ ch \in DOMAIN pwmChannels) =>
                    /\ pwmChannels'[ch].defaultValue = pwmChannels[ch].defaultValue
                    /\ pwmChannels'[ch].currentValue =
                          IF driverStationEnabled /\ payload.speed # Undefined
                          THEN mapValue(Val(payload.speed), -100, 100, 0, 25500)
                          ELSE pwmChannels[ch].currentValue
             /\ (lastEvent'.type = "encoder" /\ ch \in DOMAIN encoderChannels) =>
                    encoderChannels'[ch] = encoderChannels[ch]]_vars

\* An init message without a command has reached a PWM channel that holds
\* full forward speed, and an encoder that holds a count.
C36_InitOnCommandedChannel ==
    /\ lastEvent.type = "pwm"
    /\ lastEvent.payload.init
    /\ lastEvent.payload.speed = Undefined
    /\ lastEvent.channel \in DOMAIN pwmChannels
    /\ pwmChannels[lastEvent.channel].currentValue = 25500
    /\ \E ch \in DOMAIN encoderChannels : encoderChannels[ch].count = 7

\* C37: every field registered on a SimDevice can afterwards be read and
\* written through getValue/setValue by the exact name it was registered
\* under, also when the name begins with "<" or ">": a getValue of a
\* registered name returns the value the field was registered with or the
\* value last written under that name.
C37_ReadByRegisteredName ==
    (/\ lastReturn.method = "getValue"
     /\ lastReturn.args[1] \in DOMAIN registry[lastReturn.device])
    => lastReturn.result = Def(registry[lastReturn.device][lastReturn.args[1]].value)

\* C38: an inbound SimDevice message from the protocol side never changes
\* the value of a field registered with the direction INPUT_TO_ROBOT_CODE,
\* whichever prefix the key of the payload carries.
C38_InboundLeavesInputFields ==
    [][(lastEvent'.type = "simDevice" /\ lastEvent' # lastEvent)
       => \A deviceIdent \in DOMAIN simDevices :
              \A fieldIdent \in DOMAIN simDevices[deviceIdent].fields :
                  fieldNameAndDirection(fieldIdent).direction = INPUT_TO_ROBOT_CODE
                  => simDevices'[deviceIdent].fields[fieldIdent]
                         = simDevices[deviceIdent].fields[fieldIdent]]_vars

\* The fields of a SimDevice that a polling tick reports to the protocol
\* side: the bidirectional ones and the inputs to the robot code.
ReportedFields(device) ==
    {fieldIdent \in DOMAIN device.fields :
        fieldNameAndDirection(fieldIdent).direction \in {BIDIR, INPUT_TO_ROBOT_CODE}}

\* C39: after a close of the connection followed by a reopen, the first
\* polling tick sends the current value of every bidirectional and every
\* input-to-code field of every registered SimDevice, also when the values
\* did not change while disconnected.  The open is known to be a reopen
\* when the robot is enabled at it: only a driver-station message, which
\* arrives on a connection, enables the robot.
C39_ReopenResendsFields ==
    [][(/\ lastEvent.type = "open"
        /\ driverStationEnabled
        /\ lastEvent'.type = "tick")
       => \A deviceIdent \in DOMAIN simDevices :
              \A fieldIdent \in ReportedFields(simDevices[deviceIdent]) :
                  \E i \in SimDeviceUpdates(lastSent', deviceIdent) :
                      /\ fieldIdent \in DOMAIN lastSent'[i][3]
                      /\ lastSent'[i][3][fieldIdent]
                             = Def(simDevices[deviceIdent].fields[fieldIdent])]_vars

\* C40: after the robot registers a SimDevice d, with any combination of
\* its index and its channel set or null, getSimDevice(d.name, d.channel)
\* returns d.
C40_RegisteredDeviceFound ==
    lastReturn.method = "registerSimDevice" =>
        LET d == lastReturn.args[1]
        IN getSimDevice(simDevices, d.name, d.channel) = Def(d)

============================================================================
